---- MODULE Spec2Model ----
(***************************************************************************)
(* NEST_ASP: the nest simulator (NEST Simulations/nest_sim.py) and the     *)
(* attribute write-verify calls of the Telegram bot's API client           *)
(* (Telegram/api_client.py).                                               *)
(*                                                                         *)
(* Spec    : the simulator: run()'s loop (update_logic, publish, sleep)    *)
(*           interleaved with on_message deliveries.                       *)
(* SpecWV  : one setter call of APIClient at a time (write, then the       *)
(*           bounded poll loop), against a store that answers each         *)
(*           request with any of the responses HTTP can give.              *)
(* The other specifications follow one part of these on its own: SpecOpen  *)
(* and SpecRun the loop with its history, SpecCmd the command handler,     *)
(* SpecTwin two runs of the loop side by side, SpecCompare the comparison  *)
(* of the poll loop, SpecOrders the two polls of a composite setter,       *)
(* SpecWVFair the setter call under a scheduler that lets it go on.        *)
(***************************************************************************)
EXTENDS Integers, Sequences, FiniteSets, TLC

(***************************************************************************)
(* Python / JSON values.  A value is a record tagged with its type, so     *)
(* that values of different types can be compared.                         *)
(***************************************************************************)
JStr(s) == [t |-> "str", s |-> s]
JNum(n) == [t |-> "num", n |-> n]
JNull == [t |-> "null"]
JList == [t |-> "list"]
Absent == [t |-> "absent"]
BadJson == [t |-> "badjson"]

IsStr(v) == v.t = "str"

\* str.lower() on the strings the model uses.
Lower(s) ==
    CASE s = "CLOSED" -> "closed"
      [] s = "OPEN" -> "open"
      [] OTHER -> s

(***************************************************************************)
(* Bounds.                                                                 *)
(***************************************************************************)
\* random draws over a wide range are taken from the DrawSpread lowest and
\* the DrawSpread highest values of the range
DrawSpread == 1

(***************************************************************************)
(* Program constants of the simulator.                                     *)
(***************************************************************************)
states == <<"WAITING_FOR_HEN", "HEN_INSIDE", "EGGS_DEPOSITED", "PERSON_COLLECTING">>
InitRepeatsMin == 5
InitRepeatsMax == 20
RepeatsMin == 5
RepeatsMax == 30
\* weights are kept in hundredths of a gram (round(..., 2))
HenWeightMin == 200000
HenWeightMax == 350000
EggWeight == 6500
MaxEggs == 3
HEN_UID == "9104EE5D"
FARMER_UID == "11580C5D"
InitInterval == 10

\* a variant of RandInt whose draws reach one past the upper end
RandIntBeyond(lo, hi) == {lo, hi + 1}

\* random.randint(lo, hi) / random.uniform(lo, hi): the values a draw can give
RandInt(lo, hi) == {n \in lo..hi : n - lo < DrawSpread \/ hi - n < DrawSpread}

VARIABLES
    \* SmartNest fields
    current_state_idx, current_weight, current_uid, telemetry_interval,
    door_status, led_rgb, state_counter, target_repeats,
    \* run(): position of the loop, "update" | "publish" | "sleep", or how it
    \* ended: "crashed" (an exception left run()) | "stopped" (KeyboardInterrupt)
    pc,
    \* what the last update_logic / on_message call did
    last_event,
    \* the payload of the last telemetry publish, and the number of telemetry
    \* publishes of the current pass of the loop
    telemetry, published,
    \* history of a run: the update_logic calls that have returned (counted up
    \* to TickHorizon) and the phases in the order in which they were entered
    \* (the first four)
    ticks, visited,
    \* more history of a run: the payload of the last command delivered, the
    \* length the last time.sleep was called with, and the MQTT client of run()
    \* ("connected": connected with its network loop running | "released")
    delivered, slept_for, transport,
    \* what the last update_logic call of a run did: "none" before the first,
    \* "stay" | "blocked" | "moved", or "raised"
    last_tick,
    \* the sojourn in the current phase: the update_logic calls that returned
    \* in it, the snapshots published in it, the target_repeats drawn for it,
    \* and whether one of its ticks was blocked (the counts stop there)
    sojourn,
    \* a second nest, run next to the first with the same random draws and
    \* its own commands
    twin,
    \* APIClient setter call in progress: the call and its position,
    \* "idle" | "post" | "sleep" | "read" | "done"
    call, wpc,
    \* which field of the call is being verified (1, 2), the loop variable
    \* 'attempt', the local current_status / current_value, and the outcome of
    \* the fields verified so far
    field, attempt, current_value, verified,
    \* requests made by the call so far, and the responses to the reads of the
    \* field being verified
    posts, sleeps, reads, log,
    \* seconds the call has spent in time.sleep
    slept,
    \* the tuple the call returned
    result,
    \* the last pair of values given to the comparison of
    \* _verify_attribute_change, and what it said
    compared,
    \* the value the store showed for avgWeight at the read of the current
    \* call that verified it
    stored,
    \* the last get_egg_type call since the last setter call: what its fetch
    \* was answered and what it returned (or the exception it raised)
    egg,
    \* the verification of a composite call against a store that shows each
    \* written value from some time on: the call, the two times, and the pair
    \* (first field verified, second field verified) of each order of polling
    ordering,
    \* two callers of the setters at once: what the attribute store holds for
    \* each key, and for each caller its call, its position, its loop variable
    \* 'attempt', the values its reads have shown since its write, and the
    \* tuple it returned
    server, inflight,
    \* the one APIClient of the bot: self.token (JNull for None) and the
    \* Authorization header of its session (Absent when it has none)
    token, authorization,
    \* history of the bot: the last of the calls of login that returned a
    \* token and of logout ("none" | "login" | "logout"), and the last handler
    \* run: the chat user, the handler, the API function it called ("none" if
    \* it called none) and what login returned
    last_session, handled

simVars == <<current_state_idx, current_weight, current_uid, telemetry_interval,
             door_status, led_rgb, state_counter, target_repeats, pc,
             last_event, telemetry, published, ticks, visited, delivered,
             slept_for, transport, last_tick, sojourn, twin>>

histVars ==
    <<ticks, visited, delivered, slept_for, transport, last_tick, sojourn, twin>>

oneCallVars ==
    <<call, wpc, field, attempt, current_value, verified, posts, sleeps, reads,
      log, slept, result, compared, stored, egg, ordering>>

botVars == <<token, authorization, last_session, handled>>

wvVars == <<oneCallVars, server, inflight, botVars>>

vars == <<simVars, wvVars>>

(***************************************************************************)
(* Seconds as the code computes them from milliseconds: ms / 1000 is kept  *)
(* as whole seconds plus a fraction in thousandths (0 <= frac < 1000), so  *)
(* the value is negative exactly when whole < 0.                           *)
(***************************************************************************)
Seconds(n) == [whole |-> n, frac |-> 0]
DivThousand(ms) == [whole |-> ms \div 1000, frac |-> ms % 1000]

\* int(x) of Python: [ok, n]; ok = FALSE stands for ValueError / TypeError
IntOf(v) ==
    CASE v.t = "num" -> [ok |-> TRUE, n |-> v.n]
      [] v.t = "str" /\ v.s = "2000" -> [ok |-> TRUE, n |-> 2000]
      [] OTHER -> [ok |-> FALSE, n |-> 0]

(***************************************************************************)
(* Command payloads.  A JSON object is a record with one field per key the *)
(* handler looks at (and one it does not); Absent marks a missing key.     *)
(***************************************************************************)
JObj(d, r, p, o, env) ==
    [t |-> "obj", door |-> d, rgb |-> r, period |-> p, other |-> o, params |-> env]

DoorValues == {JStr("open"), JStr("closed"), JStr("CLOSED"), JNum(5)}
RgbValues == {JStr("red"), JNum(7)}
PeriodValues == {JNum(2000), JStr("2000"), JNum(0 - 1000), JStr("abc")}

FlatObjects ==
    {JObj(d, r, p, Absent, Absent) :
        d \in DoorValues \cup {Absent}, r \in RgbValues \cup {Absent},
        p \in PeriodValues \cup {Absent}}
    \cup {JObj(Absent, Absent, Absent, JNum(1), Absent),
          JObj(JStr("closed"), Absent, Absent, JNum(1), Absent),
          JObj(Absent, Absent, JNull, Absent, Absent)}

NonObjects == {JNum(5), JNull, JList, JStr("x"), JStr("door")}

\* {"params": P}, alone or with door / rgb / period keys next to it
Envelopes ==
    {JObj(Absent, Absent, Absent, Absent, P) :
        P \in {JObj(JStr("closed"), Absent, Absent, Absent, Absent),
               JObj(JStr("open"), JStr("red"), JNum(2000), Absent, Absent),
               JObj(JNum(5), Absent, Absent, Absent, Absent),
               JObj(Absent, Absent, JNum(0 - 1000), Absent, Absent),
               JNull, JStr("x")}}
    \cup {JObj(JStr("closed"), JStr("red"), JNum(2000), Absent,
               JObj(JStr("open"), Absent, Absent, Absent, Absent)),
          JObj(JStr("closed"), Absent, Absent, Absent,
               JObj(Absent, Absent, Absent, Absent, Absent))}

Payloads == FlatObjects \cup NonObjects \cup Envelopes \cup {BadJson}

(***************************************************************************)
(* on_message (nest_sim.py 82-109).  The handler runs top to bottom inside *)
(* one try block: an exception leaves the assignments made before it in    *)
(* place and skips the rest.  Each step takes and gives the record         *)
(*   [door_status, led_rgb, telemetry_interval, error].                    *)
(***************************************************************************)
\* lines 95-97: the assignment, then print(... .upper()) which needs a str
CommandDoor(n, params) ==
    IF n.error \/ params.door = Absent THEN n
    ELSE [n EXCEPT !.door_status = params.door, !.error = ~IsStr(params.door)]

\* a variant of CommandRgb that assigns the colour to the door field
CommandRgbIntoDoor(n, params) ==
    IF n.error \/ params.rgb = Absent THEN n
    ELSE [n EXCEPT !.door_status = params.rgb, !.error = ~IsStr(params.rgb)]

\* lines 100-102
CommandRgb(n, params) ==
    IF n.error \/ params.rgb = Absent THEN n
    ELSE [n EXCEPT !.led_rgb = params.rgb, !.error = ~IsStr(params.rgb)]

\* lines 105-107: int(params["period"]) / 1000
CommandPeriod(n, params) ==
    IF n.error \/ params.period = Absent THEN n
    ELSE IF IntOf(params.period).ok
         THEN [n EXCEPT !.telemetry_interval = DivThousand(IntOf(params.period).n)]
         ELSE [n EXCEPT !.error = TRUE]

\* a variant of Params that does not look for the envelope
ParamsNoEnvelope(data) == data

\* line 92: data.get("params", data); AttributeError when data is no dict
Params(data) == IF data.params # Absent THEN data.params ELSE data

\* '"door" in params' and the subscripts that follow, when params is no dict:
\* a number or None raises TypeError, a str raises TypeError on the subscript
\* when it contains a key, a list or a str without the keys does nothing
NonDictRaises(params) ==
    \/ params.t \in {"num", "null"}
    \/ params.t = "str" /\ params.s \in {"door", "rgb", "period"}

OnMessageResult(payload, n) ==
    IF payload.t # "obj" THEN [n EXCEPT !.error = TRUE]
    ELSE LET params == Params(payload) IN
         IF params.t # "obj" THEN [n EXCEPT !.error = NonDictRaises(params)]
         ELSE CommandPeriod(CommandRgb(CommandDoor(n, params), params), params)

OnMessage(payload) ==
    /\ pc \notin {"crashed", "stopped"}
    /\ LET r == OnMessageResult(payload,
                   [door_status |-> door_status, led_rgb |-> led_rgb,
                    telemetry_interval |-> telemetry_interval, error |-> FALSE])
       IN /\ door_status' = r.door_status
          /\ led_rgb' = r.led_rgb
          /\ telemetry_interval' = r.telemetry_interval
          /\ last_event' = IF r.error THEN "cmd_error" ELSE "cmd_ok"
    /\ UNCHANGED <<current_state_idx, current_weight, current_uid, state_counter,
                   target_repeats, pc, telemetry, published>>
    /\ UNCHANGED wvVars

\* a delivery by the network thread of the client
on_message(payload) == OnMessage(payload) /\ UNCHANGED histVars

\* the same delivery in a run whose commands are recorded
on_message_recorded(payload) ==
    /\ OnMessage(payload)
    /\ delivered' = payload
    /\ UNCHANGED <<ticks, visited, slept_for, transport, last_tick, sojourn, twin>>

(***************************************************************************)
(* SmartNest.update_logic (nest_sim.py 41-80).                             *)
(***************************************************************************)
\* a variant of DoorBlocks that tests the phase after WAITING_FOR_HEN
DoorBlocksWrongPhase(door, idx) ==
    Lower(door.s) = "closed" /\ states[idx + 1] = "HEN_INSIDE"

\* a variant of DoorBlocks that does not look at the door
DoorBlocksDoorIgnored(door, idx) == states[idx + 1] = "WAITING_FOR_HEN"

\* line 54: the door blocks the pending transition (door is a str here)
DoorBlocks(door, idx) ==
    Lower(door.s) = "closed" /\ states[idx + 1] = "WAITING_FOR_HEN"

\* a variant of SynthUid without the farmer's tag
SynthUidNoFarmer(state) ==
    CASE state = "HEN_INSIDE" -> HEN_UID
      [] OTHER -> "None"

\* lines 68-80: uid of the first tick of a phase
SynthUid(state) ==
    CASE state = "HEN_INSIDE" -> HEN_UID
      [] state = "PERSON_COLLECTING" -> FARMER_UID
      [] OTHER -> "None"

\* a variant of SynthWeight that takes the number of eggs for their weight
SynthWeightEggCount(state, w, e) ==
    CASE state = "HEN_INSIDE" -> w
      [] state = "EGGS_DEPOSITED" -> e
      [] OTHER -> 0

\* lines 68-80: weight of the first tick of a phase, from the draws w
\* (random.uniform(2000, 3500), rounded) and e (random.randint(1, 3))
SynthWeight(state, w, e) ==
    CASE state = "HEN_INSIDE" -> w
      [] state = "EGGS_DEPOSITED" -> e * EggWeight
      [] OTHER -> 0

\* a variant of NextStateIdx that skips a phase
NextStateIdxSkips(idx) == (idx + 2) % Len(states)

\* line 51
NextStateIdx(idx) == (idx + 1) % Len(states)

\* a variant of CounterAfter without the increment of line 63
CounterAfterNoIncrement(moved, cnt) == IF moved THEN 0 ELSE cnt

\* a variant of CounterAfter without the reset of line 59
CounterAfterNoReset(moved, cnt) == cnt + 1

\* a variant of IsFirstTick that makes every tick synthesize the data
IsFirstTickAlways(cnt) == TRUE

\* a variant of IsFirstTick that generates the values one tick late
IsFirstTickLate(cnt) == cnt = 2

\* line 66: the synthetic data are made on the first tick of a phase
IsFirstTick(cnt) == cnt = 1

\* a variant of CounterAfter that counts the tick of a transition twice
CounterAfterStartsAtTwo(moved, cnt) == IF moved THEN 2 ELSE cnt + 1

\* lines 59 and 63: state_counter after a tick that was not blocked
CounterAfter(moved, cnt) == (IF moved THEN 0 ELSE cnt) + 1

UpdateLogic ==
    /\ pc = "update"
    /\ IF state_counter >= target_repeats /\ ~IsStr(door_status)
       THEN \* line 54: door_status.lower() raises AttributeError; run() does
            \* not catch it
            /\ pc' = "crashed"
            /\ UNCHANGED <<current_state_idx, current_weight, current_uid,
                           state_counter, target_repeats, last_event, published>>
       ELSE IF state_counter >= target_repeats
                  /\ DoorBlocks(door_status, current_state_idx)
       THEN \* line 55: return before the increment
            /\ pc' = "publish"
            /\ last_event' = "blocked"
            /\ published' = 0
            /\ UNCHANGED <<current_state_idx, current_weight, current_uid,
                           state_counter, target_repeats>>
       ELSE LET moved == state_counter >= target_repeats
                idx1 == IF moved THEN NextStateIdx(current_state_idx)
                                 ELSE current_state_idx
                cnt1 == CounterAfter(moved, state_counter)
                state == states[idx1 + 1]
            IN  \E r \in IF moved THEN RandInt(RepeatsMin, RepeatsMax)
                                  ELSE {target_repeats},
                   w \in IF IsFirstTick(cnt1) /\ state = "HEN_INSIDE"
                         THEN RandInt(HenWeightMin, HenWeightMax) ELSE {0},
                   e \in IF IsFirstTick(cnt1) /\ state = "EGGS_DEPOSITED"
                         THEN 1..MaxEggs ELSE {1} :
                    /\ current_state_idx' = idx1
                    /\ state_counter' = cnt1
                    /\ target_repeats' = r
                    /\ current_uid' = IF IsFirstTick(cnt1) THEN SynthUid(state)
                                                         ELSE current_uid
                    /\ current_weight' = IF IsFirstTick(cnt1)
                                         THEN SynthWeight(state, w, e)
                                         ELSE current_weight
                    /\ last_event' = IF moved THEN "moved" ELSE "stay"
                    /\ published' = 0
                    /\ pc' = "publish"
    /\ UNCHANGED <<telemetry_interval, door_status, led_rgb, telemetry>>
    /\ UNCHANGED wvVars

\* the call of line 147
update_logic == UpdateLogic /\ UNCHANGED histVars

\* the same call in a run whose history is recorded
TickHorizon == 4 * RepeatsMax

update_logic_recorded ==
    /\ UpdateLogic
    /\ ticks' = IF pc' = "publish" /\ ticks < TickHorizon THEN ticks + 1 ELSE ticks
    /\ visited' = IF current_state_idx' # current_state_idx
                     /\ Len(visited) < Len(states)
                  THEN Append(visited, current_state_idx')
                  ELSE visited
    /\ UNCHANGED <<delivered, slept_for, transport, last_tick, sojourn, twin>>

\* a tick of a run in which the outcome of the last tick is recorded
update_logic_gate ==
    /\ UpdateLogic
    /\ last_tick' = IF pc' = "crashed" THEN "raised" ELSE last_event'
    /\ UNCHANGED <<ticks, visited, delivered, slept_for, transport, sojourn, twin>>

\* a tick of a run in which the ticks of each sojourn are counted
update_logic_sojourn ==
    /\ UpdateLogic
    /\ sojourn' =
          IF pc' = "crashed" \/ sojourn.blocked THEN sojourn
          ELSE IF last_event' = "blocked" THEN [sojourn EXCEPT !.blocked = TRUE]
          ELSE IF last_event' = "moved"
               THEN [ticks |-> 1, snapshots |-> 0, drawn |-> target_repeats',
                     blocked |-> FALSE]
               ELSE [sojourn EXCEPT !.ticks = @ + 1]
    /\ UNCHANGED <<ticks, visited, delivered, slept_for, transport, last_tick, twin>>

\* a command delivered in a run in which the door is never away from 'open':
\* the door and period commands that leave door_status at 'open'
OpenRunPayloads == {p \in FlatObjects : p.rgb = Absent /\ p.other = Absent}

on_message_door_open(payload) ==
    /\ on_message(payload)
    /\ door_status' = JStr("open")

(***************************************************************************)
(* run(): the loop body after update_logic (nest_sim.py 146-157).  The     *)
(* temperature and humidity of the payload are fresh random numbers that   *)
(* nothing reads; the payload keeps the two fields taken from the nest.    *)
(***************************************************************************)
\* a variant of publish that sends nothing after a blocked tick
publishUnlessBlocked ==
    /\ pc = "publish"
    /\ IF last_event = "blocked"
       THEN UNCHANGED <<telemetry, published>>
       ELSE /\ telemetry' = [weight |-> current_weight, uid |-> current_uid]
            /\ published' = published + 1
    /\ pc' = "sleep"
    /\ UNCHANGED <<current_state_idx, current_weight, current_uid,
                   telemetry_interval, door_status, led_rgb, state_counter,
                   target_repeats, last_event>>
    /\ UNCHANGED histVars
    /\ UNCHANGED wvVars

Publish ==
    /\ pc = "publish"
    /\ telemetry' = [weight |-> current_weight, uid |-> current_uid]
    /\ published' = published + 1
    /\ pc' = "sleep"
    /\ UNCHANGED <<current_state_idx, current_weight, current_uid,
                   telemetry_interval, door_status, led_rgb, state_counter,
                   target_repeats, last_event>>
    /\ UNCHANGED wvVars

\* lines 148-156
publish == Publish /\ UNCHANGED histVars

\* the same publish in a run in which the snapshots of each sojourn are counted
publish_sojourn ==
    /\ Publish
    /\ sojourn' = IF sojourn.blocked THEN sojourn
                  ELSE [sojourn EXCEPT !.snapshots = @ + 1]
    /\ UNCHANGED <<ticks, visited, delivered, slept_for, transport, last_tick, twin>>

\* a variant of SleepLength that sleeps the interval run() started with
SleepLengthInitial(interval) == Seconds(InitInterval)

\* line 157: the argument of time.sleep is the interval as it is now
SleepLength(interval) == interval

\* time.sleep raises ValueError on a negative length
Sleep ==
    /\ pc = "sleep"
    /\ pc' = IF SleepLength(telemetry_interval).whole < 0 THEN "crashed" ELSE "update"
    /\ UNCHANGED <<current_state_idx, current_weight, current_uid,
                   telemetry_interval, door_status, led_rgb, state_counter,
                   target_repeats, last_event, telemetry, published>>
    /\ UNCHANGED wvVars

\* line 157
sleep == Sleep /\ UNCHANGED histVars

\* the same call in a run that records the length slept
sleep_recorded ==
    /\ Sleep
    /\ slept_for' = SleepLength(telemetry_interval)
    /\ UNCHANGED <<ticks, visited, delivered, transport, last_tick, sojourn, twin>>

\* lines 159-162: Ctrl+C at any point of the loop; the handler stops the
\* network loop and disconnects, and run() ends
keyboard_interrupt ==
    /\ pc \in {"update", "publish", "sleep"}
    /\ pc' = "stopped"
    /\ transport' = "released"
    /\ UNCHANGED <<current_state_idx, current_weight, current_uid,
                   telemetry_interval, door_status, led_rgb, state_counter,
                   target_repeats, last_event, telemetry, published>>
    /\ UNCHANGED <<ticks, visited, delivered, slept_for, last_tick, sojourn,
                   twin>>
    /\ UNCHANGED wvVars

(***************************************************************************)
(* The second nest: the same code on a record of the fields.               *)
(***************************************************************************)
\* SmartNest.__init__ with the draw of line 39, and the publish of line 141
TwinInit(target) ==
    [idx |-> 0, counter |-> 0, target |-> target, uid |-> "None", weight |-> 0,
     door |-> JStr("open"), rgb |-> JStr("off"),
     interval |-> Seconds(InitInterval), crashed |-> FALSE,
     telemetry |-> [init |-> "started"]]

\* update_logic (41-80) with the draws r (line 60), w (line 73), e (line 77)
TwinTick(n, r, w, e) ==
    IF n.crashed THEN n
    ELSE IF n.counter >= n.target /\ ~IsStr(n.door) THEN [n EXCEPT !.crashed = TRUE]
    ELSE IF n.counter >= n.target /\ DoorBlocks(n.door, n.idx) THEN n
    ELSE LET moved == n.counter >= n.target
             idx1 == IF moved THEN NextStateIdx(n.idx) ELSE n.idx
             cnt1 == CounterAfter(moved, n.counter)
             state == states[idx1 + 1]
         IN  [n EXCEPT !.idx = idx1,
                       !.counter = cnt1,
                       !.target = IF moved THEN r ELSE n.target,
                       !.uid = IF IsFirstTick(cnt1) THEN SynthUid(state) ELSE n.uid,
                       !.weight = IF IsFirstTick(cnt1) THEN SynthWeight(state, w, e)
                                                       ELSE n.weight]

\* on_message (82-109)
TwinCommand(n, payload) ==
    IF n.crashed THEN n
    ELSE LET r == OnMessageResult(payload,
                      [door_status |-> n.door, led_rgb |-> n.rgb,
                       telemetry_interval |-> n.interval, error |-> FALSE])
         IN  [n EXCEPT !.door = r.door_status, !.rgb = r.led_rgb,
                       !.interval = r.telemetry_interval]

\* both nests tick, with the same draws: the draws of the first nest are read
\* off its new fields.  The two runs are followed until one of them has ended.
twin_update ==
    /\ ~twin.crashed
    /\ UpdateLogic
    /\ twin' = TwinTick(twin, target_repeats', current_weight',
                        current_weight' \div EggWeight)
    /\ UNCHANGED <<ticks, visited, delivered, slept_for, transport, last_tick,
                   sojourn>>

twin_publish ==
    /\ ~twin.crashed
    /\ Publish
    /\ twin' = [twin EXCEPT !.telemetry = [weight |-> twin.weight, uid |-> twin.uid]]
    /\ UNCHANGED <<ticks, visited, delivered, slept_for, transport, last_tick,
                   sojourn>>

twin_sleep ==
    /\ ~twin.crashed
    /\ Sleep
    /\ twin' = IF SleepLength(twin.interval).whole < 0
               THEN [twin EXCEPT !.crashed = TRUE] ELSE twin
    /\ UNCHANGED <<ticks, visited, delivered, slept_for, transport, last_tick,
                   sojourn>>

\* the commands of the two runs: the same door and period keys, any rgb key
TwinPayloads ==
    {p \in FlatObjects :
        /\ p.door \in {Absent, JStr("closed")}
        /\ p.period \in {Absent, JNum(0 - 1000)}
        /\ p.other = Absent}

RgbVariants(p) == {[p EXCEPT !.rgb = x] : x \in RgbValues \cup {Absent}}

\* the first nest is sent p, the second q
twin_command(p, q) ==
    /\ ~twin.crashed
    /\ OnMessage(p)
    /\ twin' = TwinCommand(twin, q)
    /\ UNCHANGED <<ticks, visited, delivered, slept_for, transport, last_tick,
                   sojourn>>

\* SmartNest.__init__ (19-39) and run() up to the loop (122-143)
SimInit ==
    /\ current_state_idx = 0
    /\ current_weight = 0
    /\ current_uid = "None"
    /\ telemetry_interval = Seconds(InitInterval)
    /\ door_status = JStr("open")
    /\ led_rgb = JStr("off")
    /\ state_counter = 0
    /\ target_repeats \in RandInt(InitRepeatsMin, InitRepeatsMax)
    /\ pc = "update"
    /\ last_event = "init"
    /\ telemetry = [init |-> "started"]
    /\ published = 0
    /\ ticks = 0
    /\ visited = <<0>>
    /\ delivered = Absent
    /\ slept_for = Absent
    /\ transport = "connected"
    /\ last_tick = "none"
    /\ sojourn = [ticks |-> 0, snapshots |-> 0, drawn |-> target_repeats,
                  blocked |-> FALSE]
    /\ twin = TwinInit(target_repeats)

(***************************************************************************)
(* APIClient (api_client.py): values, formatting and comparison.           *)
(* A float is JNum(n) with n in ten-thousandths; an int is JInt(k).        *)
(***************************************************************************)
JInt(k) == [t |-> "int", k |-> k]
Scale == 10000
\* 0.001, the tolerance of lines 307, 604 and 606, in ten-thousandths
Tolerance == 10

Digits == <<"0", "1", "2", "3", "4", "5", "6", "7", "8", "9">>

RECURSIVE IntStr(_)
IntStr(k) == IF k < 10 THEN Digits[k + 1] ELSE IntStr(k \div 10) \o Digits[(k % 10) + 1]

\* the digits after the point of a float: no trailing zeros, at least one
FracStr(f) ==
    IF f % 1000 = 0 THEN Digits[(f \div 1000) + 1]
    ELSE IF f % 100 = 0 THEN Digits[(f \div 1000) + 1] \o Digits[((f \div 100) % 10) + 1]
    ELSE IF f % 10 = 0
         THEN Digits[(f \div 1000) + 1] \o Digits[((f \div 100) % 10) + 1]
              \o Digits[((f \div 10) % 10) + 1]
    ELSE Digits[(f \div 1000) + 1] \o Digits[((f \div 100) % 10) + 1]
         \o Digits[((f \div 10) % 10) + 1] \o Digits[(f % 10) + 1]

\* str(x) and the {x} of an f-string
Str(v) ==
    CASE v.t = "str" -> v.s
      [] v.t = "int" -> IntStr(v.k)
      [] v.t = "num" -> IntStr(v.n \div Scale) \o "." \o FracStr(v.n % Scale)
      [] v.t = "null" -> "None"
      [] OTHER -> "[]"

\* the values the bot passes to the setters (bot.py 604-607, 1030, 1095, 1171)
TempValues == {JNum(235000)}
HumValues == {JNum(600000)}
LocationValues == {<<JNum(404000), JNum(37000)>>}
WeightValues == {<<JInt(63), JInt(50)>>, <<JInt(11), JInt(8)>>}

\* the number literals float() is asked to parse in the model
Literals ==
    TempValues \cup HumValues
    \cup UNION {{p[1], p[2]} : p \in LocationValues \cup WeightValues}

\* float(x): [ok, n]; ok = FALSE stands for ValueError / TypeError
FloatOf(v) ==
    CASE v.t = "num" -> [ok |-> TRUE, n |-> v.n]
      [] v.t = "int" -> [ok |-> TRUE, n |-> v.k * Scale]
      [] v.t = "str" /\ (\E l \in Literals : Str(l) = v.s) ->
            LET l == CHOOSE l \in Literals : Str(l) = v.s
            IN  [ok |-> TRUE, n |-> IF l.t = "int" THEN l.k * Scale ELSE l.n]
      [] OTHER -> [ok |-> FALSE, n |-> 0]

Abs(x) == IF x < 0 THEN 0 - x ELSE x

\* abs(a - b) < 0.001 on doubles.  Two numbers of the model that are 0.001
\* apart as decimals are not 0.001 apart as doubles: the difference of the
\* pairs of RoundsBelow comes out just below 0.001 (63.001 - 63 is
\* 0.00099999999999767), that of the other such pairs just above it
\* (23.501 - 23.5 is 0.0010000000000012).
RoundsBelow ==
    {{37000, 37010}, {80000, 80010}, {109990, 110000}, {110000, 110010},
     {403990, 404000}, {499990, 500000}, {500000, 500010}, {599990, 600000},
     {600000, 600010}, {629990, 630000}, {630000, 630010}}

Within(a, b) == Abs(a - b) < Tolerance \/ {a, b} \in RoundsBelow

\* a variant of AttrMatches whose tolerance includes 0.001 itself
AttrMatchesInclusive(current, expected) ==
    IF FloatOf(current).ok /\ FloatOf(expected).ok
    THEN Abs(FloatOf(current).n - FloatOf(expected).n) <= Tolerance
    ELSE Str(current) = Str(expected)

\* _verify_attribute_change 303-314: numbers within the tolerance, or, when
\* one of the two float() calls raises, equal strings
AttrMatches(current, expected) ==
    IF FloatOf(current).ok /\ FloatOf(expected).ok
    THEN Within(FloatOf(current).n, FloatOf(expected).n)
    ELSE Str(current) = Str(expected)

\* set_door_status 183: current_status == status
DoorMatches(current, status) == current = status

(***************************************************************************)
(* What a request can give.  A POST succeeds or raises; a GET raises, or   *)
(* gives a body without the scope, without the key, or with a value.       *)
(***************************************************************************)
PostOutcomes == {"ok", "ConnectionError", "500 Server Error"}

Fail == [kind |-> "fail"]
NoScope == [kind |-> "noscope"]
NoKey == [kind |-> "nokey"]
Value(v) == [kind |-> "value", v |-> v]

\* lines 181 and 300: the scope and the key are in the body
HasValue(resp) == resp.kind = "value"

\* the values the store may hold for a key whose written value is e
StoreValues(e) ==
    IF e.t = "str" THEN {JStr("open"), JStr("closed")}
    ELSE {JNum(FloatOf(e).n), JNum(FloatOf(e).n + 4), JNum(FloatOf(e).n + Tolerance),
          JStr(Str(e)), JStr("abc"), JNull}

Responses(e) == {Fail, NoScope, NoKey} \cup {Value(v) : v \in StoreValues(e)}

AllResponses ==
    UNION {Responses(e) : e \in Literals \cup {JStr("open"), JStr("closed")}}

(***************************************************************************)
(* The setters.                                                            *)
(***************************************************************************)
\* range(3) of line 176 and max_attempts=3 of line 275
DoorAttempts == 3
max_attempts == 3
\* time.sleep(2) of line 177 and delay=2 of line 275
DoorDelay == 2
delay == 2

Unbound == [t |-> "unbound"]
NoCall == [fn |-> "none", keys |-> <<>>, values |-> <<>>]
NoResult == [ok |-> FALSE, detail |-> "<no result>"]
Returned(ok, detail) == [ok |-> ok, detail |-> detail]
NoEgg == [resp |-> Unbound, ret |-> "<no call>"]

Calls ==
    {[fn |-> "set_door_status", keys |-> <<"door">>, values |-> <<v>>] :
        v \in {JStr("open"), JStr("closed")}}
    \cup {[fn |-> "set_temperature_attribute", keys |-> <<k>>, values |-> <<v>>] :
        k \in {"maxTemp", "minTemp"}, v \in TempValues}
    \cup {[fn |-> "set_humidity_attribute", keys |-> <<k>>, values |-> <<v>>] :
        k \in {"maxHum", "minHum"}, v \in HumValues}
    \cup {[fn |-> "set_location_attributes", keys |-> <<"latitude", "longitude">>,
           values |-> v] : v \in LocationValues}
    \cup {[fn |-> "set_weight_attributes", keys |-> <<"avgWeight", "minWeight">>,
           values |-> v] : v \in WeightValues}

\* a variant of Attempts whose loop goes round once more
AttemptsOneMore(c) == (IF c.fn = "set_door_status" THEN DoorAttempts ELSE max_attempts) + 1

\* a variant of Attempts whose loop has a single pass
AttemptsOnce(c) == 1

\* the attempt budget and the delay of the poll loop the call runs
Attempts(c) == IF c.fn = "set_door_status" THEN DoorAttempts ELSE max_attempts
Delay(c) == IF c.fn = "set_door_status" THEN DoorDelay ELSE delay

\* a variant of WriteFailed that answers as an unverified write does
WriteFailedSaysSent(e) == Returned(FALSE, "Update sent but both verifications failed")

\* the except clause of every setter (194-196, 271-273, 393-395, 474-476, 585-587)
WriteFailed(e) == Returned(FALSE, "Error: " \o e)

\* set_door_status 185 and 192
DoorResult(c, ok) ==
    IF ok THEN Returned(TRUE, "Door successfully set to " \o Str(c.values[1]))
    ELSE Returned(FALSE, "Update sent but verification failed after 3 attempts")

\* set_temperature_attribute 266-269 (the degree sign before the C of the
\* unit is left out of the text)
TemperatureResult(c, ok) ==
    IF ok THEN Returned(TRUE, c.keys[1] \o " successfully updated to "
                              \o Str(c.values[1]) \o "C (verified)")
    ELSE Returned(FALSE, "Update sent but verification failed for " \o c.keys[1])

\* set_humidity_attribute 388-391
HumidityResult(c, ok) ==
    IF ok THEN Returned(TRUE, c.keys[1] \o " successfully updated to "
                              \o Str(c.values[1]) \o "% (verified)")
    ELSE Returned(FALSE, "Update sent but verification failed for " \o c.keys[1])

\* a variant of LocationResult without the two 'Only ...' branches
LocationResultGeneric(c, lat_verified, lon_verified) ==
    IF lat_verified /\ lon_verified
    THEN Returned(TRUE, "Location successfully updated (lat=" \o Str(c.values[1])
                        \o ", lon=" \o Str(c.values[2]) \o ")")
    ELSE Returned(FALSE, "Update sent but both verifications failed")

\* set_location_attributes 465-472
LocationResult(c, lat_verified, lon_verified) ==
    IF lat_verified /\ lon_verified
    THEN Returned(TRUE, "Location successfully updated (lat=" \o Str(c.values[1])
                        \o ", lon=" \o Str(c.values[2]) \o ")")
    ELSE IF lat_verified
    THEN Returned(FALSE, "Only latitude verified, longitude verification failed")
    ELSE IF lon_verified
    THEN Returned(FALSE, "Only longitude verified, latitude verification failed")
    ELSE Returned(FALSE, "Update sent but both verifications failed")

\* set_weight_attributes 576-583
WeightResult(c, avg_verified, min_verified) ==
    IF avg_verified /\ min_verified
    THEN Returned(TRUE, "Egg weights successfully updated (avg=" \o Str(c.values[1])
                        \o "g, min=" \o Str(c.values[2]) \o "g)")
    ELSE IF avg_verified
    THEN Returned(FALSE, "Only avgWeight verified, minWeight verification failed")
    ELSE IF min_verified
    THEN Returned(FALSE, "Only minWeight verified, avgWeight verification failed")
    ELSE Returned(FALSE, "Update sent but both verifications failed")

\* what the setter returns once every field has been polled
SetterResult(c, v) ==
    CASE c.fn = "set_door_status" -> DoorResult(c, v[1])
      [] c.fn = "set_temperature_attribute" -> TemperatureResult(c, v[1])
      [] c.fn = "set_humidity_attribute" -> HumidityResult(c, v[1])
      [] c.fn = "set_location_attributes" -> LocationResult(c, v[1], v[2])
      [] c.fn = "set_weight_attributes" -> WeightResult(c, v[1], v[2])

\* a variant of FieldMatches that takes any value read for the expected one
FieldMatchesAnyValue(c, f, resp) == HasValue(resp)

\* lines 181-183 and 300-314: this read shows the expected value
FieldMatches(c, f, resp) ==
    /\ HasValue(resp)
    /\ IF c.fn = "set_door_status" THEN DoorMatches(resp.v, c.values[f])
                                   ELSE AttrMatches(resp.v, c.values[f])

\* a variant of PollOutcome that looks at the value only on the last attempt
PollOutcomeNoEarlyExit(c, f, att, resp) ==
    IF att + 1 >= Attempts(c)
    THEN (IF FieldMatches(c, f, resp) THEN "verified" ELSE "exhausted")
    ELSE "again"

\* a variant of PollOutcome whose loop is one attempt short
PollOutcomeOneShort(c, f, att, resp) ==
    IF FieldMatches(c, f, resp) THEN "verified"
    ELSE IF att + 2 >= Attempts(c) THEN "exhausted"
    ELSE "again"

\* a variant of PollOutcome that leaves the loop when the body read lacks the
\* scope or the key
PollOutcomeAbortOnMissing(c, f, att, resp) ==
    IF FieldMatches(c, f, resp) THEN "verified"
    ELSE IF resp \in {NoScope, NoKey} \/ att + 1 >= Attempts(c) THEN "exhausted"
    ELSE "again"

\* a variant of PollOutcome that leaves the loop when a read fails
PollOutcomeAbortOnFail(c, f, att, resp) ==
    IF FieldMatches(c, f, resp) THEN "verified"
    ELSE IF resp = Fail \/ att + 1 >= Attempts(c) THEN "exhausted"
    ELSE "again"

\* one pass of the loop body after the read (176-192, 287-322): return True
\* on a match, fall out of the loop after the last attempt, else go round
PollOutcome(c, f, att, resp) ==
    IF FieldMatches(c, f, resp) THEN "verified"
    ELSE IF att + 1 >= Attempts(c) THEN "exhausted"
    ELSE "again"

\* a variant of AfterPost without the except clause of the setter
AfterPostRaises(outcome) == IF outcome = "ok" THEN "sleep" ELSE "raised"

\* a variant of AfterPost without raise_for_status
AfterPostIgnoresError(outcome) == "sleep"

\* after the POST and raise_for_status (170-171, 260-261, ...): an exception
\* goes to the setter's except clause, else the verification starts
AfterPost(outcome) == IF outcome = "ok" THEN "sleep" ELSE "done"

\* the bot calls a setter (no call of this client is in progress)
call_setter(c) ==
    /\ wpc \in {"idle", "done"}
    /\ call' = c
    /\ wpc' = "post"
    /\ field' = 0
    /\ attempt' = 0
    /\ current_value' = Unbound
    /\ verified' = <<>>
    /\ posts' = <<>>
    /\ sleeps' = 0
    /\ reads' = 0
    /\ log' = <<>>
    /\ slept' = 0
    /\ result' = NoResult
    /\ stored' = Unbound
    /\ egg' = NoEgg
    /\ UNCHANGED <<simVars, botVars, server, inflight, compared, ordering>>

\* temp_session.post(...); response.raise_for_status()
post_write(outcome) ==
    /\ wpc = "post"
    /\ posts' = Append(posts, outcome)
    /\ wpc' = AfterPost(outcome)
    /\ IF AfterPost(outcome) = "done"
       THEN result' = WriteFailed(outcome) /\ field' = field
       ELSE result' = result /\ field' = 1
    /\ UNCHANGED <<call, attempt, current_value, verified, sleeps, reads, log,
                   slept>>
    /\ UNCHANGED <<simVars, botVars, server, inflight, compared, ordering, stored, egg>>

\* time.sleep(2) / time.sleep(delay) at the head of the loop body
poll_sleep ==
    /\ wpc = "sleep"
    /\ sleeps' = sleeps + 1
    /\ slept' = slept + Delay(call)
    /\ wpc' = "read"
    /\ UNCHANGED <<call, field, attempt, current_value, verified, posts, reads,
                   log, result>>
    /\ UNCHANGED <<simVars, botVars, server, inflight, compared, ordering, stored, egg>>

\* the GET of the loop body and everything up to the next sleep or the return
poll_read(resp) ==
    /\ wpc = "read"
    /\ resp \in Responses(call.values[field])
    /\ reads' = reads + 1
    /\ LET outcome == PollOutcome(call, field, attempt, resp)
           v == Append(verified, outcome = "verified")
       IN  IF outcome = "again"
           THEN /\ attempt' = attempt + 1
                /\ current_value' = IF HasValue(resp) THEN resp.v ELSE current_value
                /\ log' = Append(log, resp)
                /\ wpc' = "sleep"
                /\ UNCHANGED <<field, verified, result>>
           ELSE IF field < Len(call.keys)
           THEN \* the next _verify_attribute_change call starts
                /\ verified' = v
                /\ field' = field + 1
                /\ attempt' = 0
                /\ current_value' = Unbound
                /\ log' = <<>>
                /\ wpc' = "sleep"
                /\ UNCHANGED result
           ELSE /\ verified' = v
                /\ attempt' = IF outcome = "verified" THEN attempt ELSE attempt + 1
                /\ current_value' = IF HasValue(resp) THEN resp.v ELSE current_value
                /\ log' = Append(log, resp)
                /\ result' = SetterResult(call, v)
                /\ wpc' = "done"
                /\ UNCHANGED field
    /\ stored' = IF call.keys[field] = "avgWeight" /\ FieldMatches(call, field, resp)
                 THEN resp.v ELSE stored
    /\ UNCHANGED <<call, posts, sleeps, slept>>
    /\ UNCHANGED <<simVars, botVars, server, inflight, compared, ordering, egg>>

(***************************************************************************)
(* get_egg_type (api_client.py 589-611) and the get_weight_attributes call *)
(* it makes (508-539).                                                     *)
(***************************************************************************)
\* the averages of lines 604 and 606
HenAvgWeight == 63
QuailAvgWeight == 11

\* a JSON integer too large for a double (float() raises OverflowError)
JHuge == [t |-> "hugeint"]

\* what the store may show for avgWeight
EggValues ==
    StoreValues(JInt(HenAvgWeight)) \cup StoreValues(JInt(QuailAvgWeight))
    \cup {JNum(630011), JNum(109989), JInt(50), JHuge}

EggResponses == {Fail, NoScope, NoKey} \cup {Value(v) : v \in EggValues}

\* get_weight_attributes gives None when the request raises, {} without the
\* 'client' scope (both falsy at line 599), and 'NaN' for a missing key, which
\* float() turns into nan, equal to nothing.  float() of a value raises
\* ValueError or TypeError, which line 608 catches, or OverflowError, which
\* nothing catches.
EggTypeOf(resp) ==
    IF resp.kind \in {"fail", "noscope", "nokey"} THEN "Unknown"
    ELSE IF resp.v = JHuge THEN "OverflowError"
    ELSE IF ~FloatOf(resp.v).ok THEN "Unknown"
    ELSE IF Within(FloatOf(resp.v).n, HenAvgWeight * Scale) THEN "Hen"
    ELSE IF Within(FloatOf(resp.v).n, QuailAvgWeight * Scale) THEN "Quail"
    ELSE "Unknown"

\* the bot asks for the egg type: before any setter call, or after a
\* set_weight_attributes call has returned success (the call reads nothing
\* of the client, so it does the same at any other time)
get_egg_type(resp) ==
    /\ \/ wpc = "idle"
       \/ wpc = "done" /\ call.fn = "set_weight_attributes" /\ result.ok
    /\ egg' = [resp |-> resp, ret |-> EggTypeOf(resp)]
    /\ UNCHANGED <<call, wpc, field, attempt, current_value, verified, posts,
                   sleeps, reads, log, slept, result, compared, stored,
                   ordering>>
    /\ UNCHANGED <<simVars, botVars, server, inflight>>

\* lines 303-314 on their own: the values the comparison may be given, as
\* current_value or as expected_value
CompareValues ==
    {JNum(235000), JNum(235004), JNum(235010), JNum(234996), JNum(234990),
     JNum(630000), JNum(630010), JInt(63), JStr("23.5"), JStr("63"), JStr("abc"), JStr("None"),
     JNull, JList}

NoComparison == [current |-> Absent, expected |-> Absent, match |-> FALSE]

verify_compare(current, expected) ==
    /\ compared' = [current |-> current, expected |-> expected,
                    match |-> AttrMatches(current, expected)]
    /\ UNCHANGED <<call, wpc, field, attempt, current_value, verified, posts,
                   sleeps, reads, log, slept, result, stored, egg, ordering>>
    /\ UNCHANGED <<simVars, botVars, server, inflight>>

(***************************************************************************)
(* The two _verify_attribute_change calls of a composite setter (461-463,  *)
(* 572-574) against a store in which the value written for a key shows     *)
(* from 'settle' seconds after the write on.  Time passes in the sleeps.   *)
(***************************************************************************)
\* the latest time, in seconds after the write, at which a value may settle
MaxSettle == 13

CompositeCalls == {c \in Calls : Len(c.keys) = 2}

\* the answer of the store for field f of call c, now seconds after the write
StoreAt(c, f, now, settle) ==
    IF now >= settle THEN Value(JNum(FloatOf(c.values[f]).n))
    ELSE Value(JNum(FloatOf(c.values[f]).n + 2 * Tolerance))

\* _verify_attribute_change for field f, entered 'now' seconds after the
\* write with 'att' attempts used: whether it verified and when it returned
RECURSIVE VerifyFrom(_, _, _, _, _)
VerifyFrom(c, f, att, now, settle) ==
    LET t == now + Delay(c)
        outcome == PollOutcome(c, f, att, StoreAt(c, f, t, settle))
    IN  IF outcome = "again" THEN VerifyFrom(c, f, att + 1, t, settle)
        ELSE [ok |-> outcome = "verified", end |-> t]

\* lines 462-463: the first field, then the second
FirstThenSecond(c, settle) ==
    LET a == VerifyFrom(c, 1, 0, 0, settle[1])
        b == VerifyFrom(c, 2, 0, a.end, settle[2])
    IN  <<a.ok, b.ok>>

\* the same two calls in the other order
SecondThenFirst(c, settle) ==
    LET b == VerifyFrom(c, 2, 0, 0, settle[2])
        a == VerifyFrom(c, 1, 0, b.end, settle[1])
    IN  <<a.ok, b.ok>>

\* the same two calls started together
InParallel(c, settle) ==
    <<VerifyFrom(c, 1, 0, 0, settle[1]).ok, VerifyFrom(c, 2, 0, 0, settle[2]).ok>>

NoOrdering == [call |-> NoCall, settle |-> <<>>]

verify_in_orders(c, settle) ==
    /\ ordering' = [call |-> c, settle |-> settle,
                    first_second |-> FirstThenSecond(c, settle),
                    second_first |-> SecondThenFirst(c, settle),
                    parallel |-> InParallel(c, settle)]
    /\ UNCHANGED <<call, wpc, field, attempt, current_value, verified, posts,
                   sleeps, reads, log, slept, result, compared, stored, egg>>
    /\ UNCHANGED <<simVars, botVars, server, inflight>>

\* APIClient.__init__: no call yet
(***************************************************************************)
(* Two callers at once (two bots, or two threads of one).  Every setter   *)
(* call uses a session of its own and no field of the client, so two calls *)
(* share nothing but the store.  The store keeps one value per key: a      *)
(* write that arrives replaces it, a read shows it.                        *)
(***************************************************************************)
Callers == {"first", "second"}
ConcKeys == {"door", "maxTemp"}
ConcCalls == {c \in Calls : Len(c.keys) = 1 /\ c.keys[1] \in ConcKeys}

\* what some writer may put under key k
KeyValues(k) ==
    IF k = "door" THEN {JStr("open"), JStr("closed")}
    ELSE UNION {StoreValues(c.values[1]) : c \in {d \in ConcCalls : d.keys[1] = k}}

NotCalling == [call |-> NoCall, pc |-> "idle", attempt |-> 0, seen |-> {},
               result |-> NoResult]

\* a handler calls a setter
conc_call(i, c) ==
    /\ inflight[i].pc \in {"idle", "done"}
    /\ inflight' = [inflight EXCEPT ![i] = [NotCalling EXCEPT !.call = c, !.pc = "post"]]
    /\ UNCHANGED <<server, simVars, oneCallVars, botVars>>

\* its POST (lines 170-171, 254-255): on an HTTP error status nothing was
\* written; when the connection breaks the write may have arrived or not
conc_post(i, outcome, arrived) ==
    /\ inflight[i].pc = "post"
    /\ outcome = "ok" => arrived
    /\ outcome = "500 Server Error" => ~arrived
    /\ LET c == inflight[i].call IN
       /\ server' = IF arrived THEN [server EXCEPT ![c.keys[1]] = c.values[1]]
                               ELSE server
       /\ inflight' = [inflight EXCEPT ![i] =
              IF AfterPost(outcome) = "done"
              THEN [@ EXCEPT !.pc = "done", !.result = WriteFailed(outcome)]
              ELSE [@ EXCEPT !.pc = "sleep"]]
    /\ UNCHANGED <<simVars, oneCallVars, botVars>>

\* time.sleep at the head of the loop body
conc_sleep(i) ==
    /\ inflight[i].pc = "sleep"
    /\ inflight' = [inflight EXCEPT ![i].pc = "read"]
    /\ UNCHANGED <<server, simVars, oneCallVars, botVars>>

\* what a GET for key k can be answered now
ReadsNow(k) ==
    {Fail, NoScope} \cup (IF server[k] = Absent THEN {NoKey} ELSE {Value(server[k])})

\* its GET and everything up to the next sleep or the return
conc_read(i, resp) ==
    /\ inflight[i].pc = "read"
    /\ LET c == inflight[i].call
           outcome == PollOutcome(c, 1, inflight[i].attempt, resp)
           seen == IF HasValue(resp) THEN inflight[i].seen \cup {resp.v}
                                     ELSE inflight[i].seen
       IN  /\ resp \in ReadsNow(c.keys[1])
           /\ inflight' = [inflight EXCEPT ![i] =
                  IF outcome = "again"
                  THEN [@ EXCEPT !.pc = "sleep", !.attempt = @ + 1, !.seen = seen]
                  ELSE [@ EXCEPT !.pc = "done", !.seen = seen,
                                 !.result = SetterResult(c, <<outcome = "verified">>)]]
    /\ UNCHANGED <<server, simVars, oneCallVars, botVars>>

\* another writer of the store (the dashboard, the device)
other_write(k, v) ==
    /\ server[k] # v
    /\ server' = [server EXCEPT ![k] = v]
    /\ UNCHANGED <<inflight, simVars, oneCallVars, botVars>>

(***************************************************************************)
(* The session of APIClient (api_client.py 35-77, 643-659) and the         *)
(* handlers of the bot (bot.py).  The bot has one APIClient (line 24) for  *)
(* every chat, and the application is built with its defaults (line 1370), *)
(* under which an update is handled to its end before the next one is      *)
(* taken: a handler is one step.                                           *)
(***************************************************************************)
\* how the login request can end: raise_for_status raises, the request or
\* response.json() raises, or the body is parsed: a body without 'token',
\* or one with the given value under 'token'
LoginResponses ==
    {[kind |-> "http_error"], [kind |-> "exception"], [kind |-> "no_token"]}
    \cup {[kind |-> "token", v |-> v] : v \in {JStr("jwt-a"), JStr("jwt-b"), JNull}}

\* a variant of is_logged_in that is always true
is_logged_in_always(tok) == TRUE

\* is_logged_in (643-650)
is_logged_in(tok) == tok # JNull

\* login (57-77): the session after the call and the value returned
Login(resp, tok, auth) ==
    IF resp.kind = "token"
    THEN [token |-> resp.v, authorization |-> JStr("Bearer " \o Str(resp.v)), ret |-> resp.v]
    ELSE [token |-> tok, authorization |-> auth, ret |-> JNull]

\* logout (652-659)
Logout == [token |-> JNull, authorization |-> Absent]

ChatUsers == {"alice", "bob"}

\* the handlers that change an attribute of the device, with the setter each
\* calls (bot.py 431, 970, 1038, 1103, 1179, 1338, 621)
Setters ==
    [handle_door_action |-> "set_door_status",
     door_command |-> "set_door_status",
     temperature_command |-> "set_temperature_attribute",
     humidity_command |-> "set_humidity_attribute",
     location_command |-> "set_location_attributes",
     location_message_handler |-> "set_location_attributes",
     handle_egg_type_selection |-> "set_weight_attributes"]

\* the handlers run for a 'get', with the getter each calls (bot.py 402,
\* 934, 1004, 1069, 1134, 1256, 1215)
Getters ==
    [handle_door_action |-> "get_door_status",
     door_command |-> "get_door_status",
     temperature_command |-> "get_temperature_attributes",
     humidity_command |-> "get_humidity_attributes",
     location_command |-> "get_location_attributes",
     rgb_command |-> "get_rgb_attribute",
     eggs_command |-> "get_eggs_attribute"]


\* /login username password (bot.py 818-853)
login_command(user, resp) ==
    /\ LET r == Login(resp, token, authorization) IN
        /\ token' = r.token
        /\ authorization' = r.authorization
        /\ last_session' = IF r.ret # JNull THEN [op |-> "login", user |-> user]
                                           ELSE last_session
        /\ handled' = [user |-> user, handler |-> "login_command",
                       called |-> "login", ret |-> r.ret]
    /\ UNCHANGED <<simVars, oneCallVars, server, inflight>>

\* /logout (bot.py 1309-1318)
logout_command(user) ==
    /\ IF is_logged_in(token)
       THEN /\ token' = Logout.token
            /\ authorization' = Logout.authorization
            /\ last_session' = [op |-> "logout", user |-> user]
            /\ handled' = [user |-> user, handler |-> "logout_command",
                           called |-> "logout", ret |-> Absent]
       ELSE /\ handled' = [user |-> user, handler |-> "logout_command",
                           called |-> "none", ret |-> Absent]
            /\ UNCHANGED <<token, authorization, last_session>>
    /\ UNCHANGED <<simVars, oneCallVars, server, inflight>>

\* a handler run to change an attribute; its arguments are usable or not
\* (a value that float() rejects, no nest selected, an unknown egg type)
mutating_handler(user, h, usable) ==
    /\ handled' = [user |-> user, handler |-> h,
                   called |-> IF is_logged_in(token) /\ usable THEN Setters[h]
                                                              ELSE "none",
                   ret |-> Absent]
    /\ UNCHANGED <<token, authorization, last_session>>
    /\ UNCHANGED <<simVars, oneCallVars, server, inflight>>

\* a handler run to read an attribute
read_only_handler(user, h) ==
    /\ handled' = [user |-> user, handler |-> h, called |-> Getters[h],
                   ret |-> Absent]
    /\ UNCHANGED <<token, authorization, last_session>>
    /\ UNCHANGED <<simVars, oneCallVars, server, inflight>>

WVInit ==
    /\ token = JNull
    /\ authorization = Absent
    /\ last_session = [op |-> "none", user |-> "none"]
    /\ handled = [user |-> "none", handler |-> "none", called |-> "none",
                  ret |-> Absent]
    /\ server = [k \in ConcKeys |-> Absent]
    /\ inflight = [i \in Callers |-> NotCalling]
    /\ call = NoCall
    /\ wpc = "idle"
    /\ field = 0
    /\ attempt = 0
    /\ current_value = Unbound
    /\ verified = <<>>
    /\ posts = <<>>
    /\ sleeps = 0
    /\ reads = 0
    /\ log = <<>>
    /\ slept = 0
    /\ result = NoResult
    /\ compared = NoComparison
    /\ stored = Unbound
    /\ egg = NoEgg
    /\ ordering = NoOrdering

Init == SimInit /\ WVInit

Next ==
    \/ update_logic
    \/ publish
    \/ sleep
    \/ \E payload \in Payloads : on_message(payload)

Spec == Init /\ [][Next]_vars

\* the command handler alone: deliveries one after the other
NextCmd == \E payload \in Payloads : on_message_recorded(payload)

SpecCmd == Init /\ [][NextCmd]_vars

\* the whole of run() after the connection: the loop with the length of
\* every sleep recorded, period commands (alone or after a bad rgb value),
\* and Ctrl+C
RunPayloads ==
    {p \in FlatObjects :
        p.door = Absent /\ p.other = Absent /\ p.rgb \in {Absent, JNum(7)}}

NextRun ==
    \/ update_logic
    \/ publish
    \/ sleep_recorded
    \/ \E payload \in RunPayloads : on_message(payload)
    \/ keyboard_interrupt

SpecRun == Init /\ [][NextRun]_vars

\* the loop and the gate: door commands of every kind, and the period
\* command that sets a negative interval
GatePayloads ==
    {p \in FlatObjects :
        /\ p.rgb = Absent /\ p.other = Absent
        /\ p.period \in {Absent, JNum(0 - 1000)}}

NextGate ==
    \/ update_logic_gate
    \/ publish
    \/ sleep
    \/ \E payload \in GatePayloads : on_message(payload)

SpecGate == Init /\ [][NextGate]_vars

\* run() is one thread: while nothing has raised, the tick, the publish and
\* the sleep of a pass each return and the next one starts
SpecGateFair ==
    /\ SpecGate
    /\ WF_vars(update_logic_gate)
    /\ WF_vars(publish)
    /\ WF_vars(sleep)

\* the loop with its sojourns counted, under the same commands
NextSojourn ==
    \/ update_logic_sojourn
    \/ publish_sojourn
    \/ sleep
    \/ \E payload \in GatePayloads : on_message(payload)

SpecSojourn == Init /\ [][NextSojourn]_vars

\* two runs of the simulator side by side, with the same draws and the same
\* door and period commands
NextTwin ==
    \/ twin_update
    \/ twin_publish
    \/ twin_sleep
    \/ \E p \in TwinPayloads : \E q \in RgbVariants(p) : twin_command(p, q)

SpecTwin == Init /\ [][NextTwin]_vars

\* the simulator with the door open on every tick, its history recorded
NextOpen ==
    \/ update_logic_recorded
    \/ publish
    \/ sleep
    \/ \E payload \in OpenRunPayloads : on_message_door_open(payload)

SpecOpen == Init /\ [][NextOpen]_vars

NextWV ==
    \/ \E c \in Calls : call_setter(c)
    \/ \E outcome \in PostOutcomes : post_write(outcome)
    \/ poll_sleep
    \/ \E resp \in AllResponses : poll_read(resp)
    \/ \E resp \in EggResponses : get_egg_type(resp)

SpecWV == Init /\ [][NextWV]_vars

\* the bot: any chat user sends any command or presses any button
NextBot ==
    \/ \E user \in ChatUsers, resp \in LoginResponses : login_command(user, resp)
    \/ \E user \in ChatUsers : logout_command(user)
    \/ \E user \in ChatUsers, h \in DOMAIN Setters, usable \in BOOLEAN :
          mutating_handler(user, h, usable)
    \/ \E user \in ChatUsers, h \in DOMAIN Getters : read_only_handler(user, h)

SpecBot == Init /\ [][NextBot]_vars

\* two callers and the other writers of the store
NextConc ==
    \/ \E i \in Callers, c \in ConcCalls : conc_call(i, c)
    \/ \E i \in Callers, outcome \in PostOutcomes, arrived \in BOOLEAN :
           conc_post(i, outcome, arrived)
    \/ \E i \in Callers : conc_sleep(i)
    \/ \E i \in Callers, resp \in AllResponses : conc_read(i, resp)
    \/ \E k \in ConcKeys : \E v \in KeyValues(k) : other_write(k, v)

SpecConc == Init /\ [][NextConc]_vars

\* every request has timeout=10 and every sleep ends: a call that can take
\* its next step takes it
SpecWVFair ==
    /\ SpecWV
    /\ WF_vars(\E outcome \in PostOutcomes : post_write(outcome))
    /\ WF_vars(poll_sleep)
    /\ WF_vars(\E resp \in AllResponses : poll_read(resp))

\* the comparison of _verify_attribute_change applied to pairs of values
NextCompare ==
    \E current \in CompareValues, expected \in CompareValues :
        verify_compare(current, expected)

SpecCompare == Init /\ [][NextCompare]_vars

\* the verification of a composite call for every pair of settling times
NextOrders ==
    \E c \in CompositeCalls, s1 \in 0..MaxSettle, s2 \in 0..MaxSettle :
        verify_in_orders(c, <<s1, s2>>)

SpecOrders == Init /\ [][NextOrders]_vars

(***************************************************************************)
(* Properties of the simulator (Spec).                                     *)
(***************************************************************************)

\* C1: while door_status is 'closed' and the simulator is in WAITING_FOR_HEN,
\* no step moves it to another phase, and no step redraws target_repeats.
C1_Interlock ==
    [][(door_status = JStr("closed") /\ current_state_idx = 0)
        => (current_state_idx' = 0 /\ target_repeats' = target_repeats)]_vars

\* a tick has just been blocked in WAITING_FOR_HEN with the dwell elapsed
C1_Witness ==
    /\ last_event = "blocked"
    /\ pc = "publish"
    /\ door_status = JStr("closed")
    /\ current_state_idx = 0
    /\ state_counter >= target_repeats

\* C2: while door_status is 'closed', a simulator in EGGS_DEPOSITED whose
\* dwell has elapsed does not move to PERSON_COLLECTING.
C2_SecondGuardedEdge ==
    [][(door_status = JStr("closed") /\ current_state_idx = 2
        /\ state_counter >= target_repeats) => current_state_idx' = 2]_vars

\* C3: whatever door_status is, a tick that starts in HEN_INSIDE or in
\* PERSON_COLLECTING with state_counter >= target_repeats moves to the next
\* phase.
C3_UnguardedEdges ==
    [][(pc = "update" /\ pc' # "update" /\ current_state_idx \in {1, 3}
        /\ state_counter >= target_repeats)
        => current_state_idx' = (current_state_idx + 1) % 4]_vars

\* C4: whatever commands have been delivered, no tick of the loop raises:
\* the loop of run() is never ended by an exception.
C4_TickLoopNeverCrashes == pc # "crashed"

\* C5: a command that on_message rejects (its handling raises) leaves
\* door_status, led_rgb and telemetry_interval as they were.
C5_RejectedCommandChangesNothing ==
    [][last_event' = "cmd_error"
        => UNCHANGED <<door_status, led_rgb, telemetry_interval>>]_vars

(***************************************************************************)
(* Properties of the write-verify calls (SpecWV).                          *)
(***************************************************************************)
SingleKey == Len(call.keys) = 1
Composite == Len(call.keys) = 2

\* the reads of the current field, by position, that showed the expected value
MatchingReads == {i \in 1..Len(log) : FieldMatches(call, field, log[i])}

Min(S) == CHOOSE x \in S : \A y \in S : x <= y

\* C6: when the POST of a setter fails, the call is over at once: it has
\* returned (False, "Error: ...") and has made no sleep and no read.
C6_WriteFailureShortCircuit ==
    (posts # <<>> /\ posts[Len(posts)] # "ok")
        => /\ wpc = "done"
           /\ result.ok = FALSE
           /\ result.detail = "Error: " \o posts[Len(posts)]
           /\ sleeps = 0
           /\ reads = 0

\* set_location_attributes has returned after a failed POST
C6_Witness ==
    /\ wpc = "done"
    /\ call.fn = "set_location_attributes"
    /\ posts = <<"ConnectionError">>
    /\ result = Returned(FALSE, "Error: ConnectionError")

\* C7: in a single-key call, once a read has shown the expected value, and
\* the first such read is the k-th, the call has returned True after exactly
\* k reads and k sleeps: nothing is read after a match.
C7_EarlyExitOnFirstMatch ==
    (SingleKey /\ MatchingReads # {})
        => /\ wpc = "done"
           /\ result.ok = TRUE
           /\ reads = Min(MatchingReads)
           /\ sleeps = Min(MatchingReads)
           /\ Len(log) = Min(MatchingReads)

\* desired 23.5: the store shows 23.501, then 23.5004
C7_Witness ==
    /\ wpc = "done"
    /\ call.fn = "set_temperature_attribute"
    /\ call.values = <<JNum(235000)>>
    /\ log = <<Value(JNum(235010)), Value(JNum(235004))>>
    /\ result.ok = TRUE
    /\ reads = 2

\* C8: a single-key call whose POST succeeded and none of whose reads showed
\* the expected value returns False after exactly 3 reads; for the door the
\* detail is "Update sent but verification failed after 3 attempts".
C8_Exhaustion ==
    (SingleKey /\ wpc = "done" /\ posts = <<"ok">> /\ MatchingReads = {})
        => /\ reads = 3
           /\ sleeps = 3
           /\ result.ok = FALSE
           /\ call.fn = "set_door_status"
                => result.detail = "Update sent but verification failed after 3 attempts"

\* desired 'closed', the store shows 'open' three times
C8_Witness ==
    /\ wpc = "done"
    /\ call.fn = "set_door_status"
    /\ call.values = <<JStr("closed")>>
    /\ log = <<Value(JStr("open")), Value(JStr("open")), Value(JStr("open"))>>
    /\ result.ok = FALSE

\* C9: in a single-key call every read, failed or not, uses one attempt:
\* there are never more reads than attempts allowed, a failed read that is
\* not the last allowed one leaves the loop running, and a call that ends on
\* a failed read ends exhausted, with False.
C9_ReadFailuresAbsorbed ==
    SingleKey
        => /\ reads <= Attempts(call)
           /\ reads = Len(log)
           /\ wpc \in {"sleep", "read"} => attempt = reads
           /\ (log # <<>> /\ log[Len(log)] = Fail)
                => /\ Len(log) < Attempts(call) => wpc \in {"sleep", "read"}
                   /\ wpc = "done" => (result.ok = FALSE /\ reads = Attempts(call))

\* the first read of set_door_status fails, the second shows the value
C9_Witness ==
    /\ wpc = "done"
    /\ call.fn = "set_door_status"
    /\ log = <<Fail, Value(JStr("closed"))>>
    /\ call.values = <<JStr("closed")>>
    /\ result.ok = TRUE
    /\ reads = 2

\* C10: a composite setter returns True exactly when both fields verified;
\* with one field verified the detail names the verified and the failed
\* field; the four combinations give four different details.
C10_CompositeResult ==
    (Composite /\ wpc = "done")
        => /\ result.ok = (Len(verified) = 2 /\ verified[1] /\ verified[2])
           /\ Len(verified) = 2 =>
                /\ (verified[1] /\ ~verified[2]) => result.detail =
                        "Only " \o call.keys[1] \o " verified, " \o call.keys[2]
                        \o " verification failed"
                /\ (~verified[1] /\ verified[2]) => result.detail =
                        "Only " \o call.keys[2] \o " verified, " \o call.keys[1]
                        \o " verification failed"
                /\ \A v \in [1..2 -> BOOLEAN] :
                        v # verified => SetterResult(call, v).detail # result.detail

\* latitude verified, longitude never matched
C10_Witness ==
    /\ wpc = "done"
    /\ call.fn = "set_location_attributes"
    /\ verified = <<TRUE, FALSE>>
    /\ result = Returned(FALSE, "Only latitude verified, longitude verification failed")

(***************************************************************************)
(* More properties of the simulator (Spec).                                *)
(***************************************************************************)
\* an update_logic call, and one that returns
Tick == pc = "update" /\ pc' # "update"
TickReturns == pc = "update" /\ pc' = "publish"
PhaseChanges == current_state_idx' # current_state_idx

\* C11 as stated: every tick, blocked ticks included, adds exactly 1 to
\* state_counter (after the reset, on a tick that changes the phase).
C11_IncrementOnEveryTick ==
    [][TickReturns
        => state_counter' = (IF PhaseChanges THEN 0 ELSE state_counter) + 1]_vars

\* C11 amended: a tick adds exactly 1 to state_counter (after the reset, on a
\* tick that changes the phase) unless the interlock blocks it or it raises;
\* a blocked tick, a tick that raises, and every step that is no tick leave
\* state_counter as it was.
C11_IncrementUnlessBlocked ==
    [][state_counter' =
        IF Tick /\ pc' # "crashed" /\ last_event' # "blocked"
        THEN (IF PhaseChanges THEN 0 ELSE state_counter) + 1
        ELSE state_counter]_vars

\* a blocked tick has been published: the counter is where the dwell ended
C11_Witness ==
    /\ last_event = "blocked"
    /\ pc = "sleep"
    /\ current_state_idx = 0
    /\ state_counter = target_repeats

\* C12: a tick resets state_counter (which then shows 1, having been more)
\* exactly when it changes the phase; a blocked tick and a tick that keeps
\* the phase never lower it.
C12_ResetIffTransition ==
    [][Tick => /\ (state_counter' = 1 /\ state_counter # 0) <=> PhaseChanges
               /\ ~PhaseChanges => state_counter' >= state_counter]_vars

\* the first tick of HEN_INSIDE has run
C12_Witness ==
    /\ last_event = "moved"
    /\ pc = "publish"
    /\ current_state_idx = 1
    /\ state_counter = 1

\* C13: a step keeps the phase, and then target_repeats too, or it is a tick
\* entered with state_counter >= target_repeats that moves to phase + 1 mod 4
\* and draws target_repeats anew.
C13_CyclicOrder ==
    [][\/ ~PhaseChanges /\ target_repeats' = target_repeats
       \/ /\ Tick
          /\ state_counter >= target_repeats
          /\ current_state_idx' = (current_state_idx + 1) % 4
          /\ target_repeats' \in RepeatsMin..RepeatsMax]_vars

\* the cycle has wrapped from PERSON_COLLECTING to WAITING_FOR_HEN
C13_Witness ==
    /\ last_event = "moved"
    /\ pc = "publish"
    /\ current_state_idx = 0
    /\ state_counter = 1
    /\ target_repeats = RepeatsMax

\* C15: current_uid and current_weight change only on a tick that leaves
\* state_counter at 1; every other step, blocked ticks included, keeps both.
C15_IdentityOncePerSojourn ==
    [][~(TickReturns /\ state_counter' = 1 /\ last_event' # "blocked")
        => UNCHANGED <<current_uid, current_weight>>]_vars

\* the third tick of a HEN_INSIDE sojourn: the hen's data are still there
C15_Witness ==
    /\ last_event = "stay"
    /\ pc = "publish"
    /\ current_state_idx = 1
    /\ state_counter = 3
    /\ current_uid = HEN_UID
    /\ current_weight = HenWeightMax

\* C16 as stated: the tick after the first tick of PERSON_COLLECTING puts
\* current_uid back to 'None'.
C16_OperatorTagCleared ==
    [][(TickReturns /\ current_state_idx = 3 /\ state_counter = 1)
        => current_uid' = "None"]_vars

\* C16 amended: during the whole PERSON_COLLECTING sojourn current_uid is the
\* operator tag; it is 'None' again in WAITING_FOR_HEN.
C16_OperatorTagKept ==
    /\ current_state_idx = 3 => current_uid = FARMER_UID
    /\ current_state_idx = 0 => current_uid = "None"

\* the operator tag is published late in the sojourn
C16_Witness ==
    /\ current_state_idx = 3
    /\ state_counter = RepeatsMin
    /\ pc = "sleep"
    /\ telemetry = [weight |-> 0, uid |-> FARMER_UID]

\* C17: the tick that leaves state_counter at 1 sets uid and weight by phase:
\* 'None' and 0; the hen tag and 2000..3500 g; 'None' and 65, 130 or 195 g;
\* the operator tag and 0.
C17_ValuesOnEntry ==
    [][(TickReturns /\ state_counter' = 1)
        => CASE current_state_idx' = 0 ->
                    current_uid' = "None" /\ current_weight' = 0
             [] current_state_idx' = 1 ->
                    /\ current_uid' = "9104EE5D"
                    /\ current_weight' >= 200000 /\ current_weight' <= 350000
             [] current_state_idx' = 2 ->
                    /\ current_uid' = "None"
                    /\ current_weight' \in {6500, 13000, 19500}
             [] current_state_idx' = 3 ->
                    current_uid' = "11580C5D" /\ current_weight' = 0]_vars

\* two eggs have just been deposited
C17_Witness ==
    /\ last_event = "moved"
    /\ pc = "publish"
    /\ current_state_idx = 2
    /\ state_counter = 1
    /\ current_uid = "None"
    /\ current_weight = 13000

\* C18: when a pass of the loop reaches its sleep it has published exactly one
\* snapshot, with the current weight and uid, whatever the tick did; nothing
\* is published before the tick has returned.
C18_OneSnapshotPerIteration ==
    /\ pc = "sleep" => /\ published = 1
                       /\ telemetry = [weight |-> current_weight,
                                       uid |-> current_uid]
    /\ pc = "publish" => published = 0

\* the pass of a blocked tick has published its snapshot
C18_Witness ==
    /\ pc = "sleep"
    /\ last_event = "blocked"
    /\ door_status = JStr("CLOSED")
    /\ published = 1
    /\ telemetry = [weight |-> 0, uid |-> "None"]

(***************************************************************************)
(* Properties of a run with the door always open (SpecOpen).               *)
(***************************************************************************)

\* C14: with the door open on every tick, once 4 x 30 ticks have run the
\* simulator has been in all four phases, entered in the order
\* WAITING_FOR_HEN, HEN_INSIDE, EGGS_DEPOSITED, PERSON_COLLECTING, whatever
\* durations were drawn.
C14_RoundTrip ==
    ticks >= 4 * 30 => visited = <<0, 1, 2, 3>>

\* 120 ticks have run and the fourth phase was entered
C14_Witness ==
    /\ ticks = 120
    /\ Len(visited) = 4
    /\ visited[4] = 3
    /\ door_status = JStr("open")

(***************************************************************************)
(* Properties of the comparison (SpecCompare).                             *)
(***************************************************************************)
\* float(v) gives a number
Parses(v) == FloatOf(v).ok

\* C19: the comparison says 'match' for two values that both parse as numbers
\* and are less than 0.001 apart (23.5004 matches 23.5, 23.501 does not), never
\* for two that are further apart, and for a pair of which one does not parse
\* exactly when the two are equal as strings.
C19_NumericComparison ==
    compared # NoComparison =>
        LET c == compared.current
            e == compared.expected
        IN  /\ (Parses(c) /\ Parses(e) /\ Abs(FloatOf(c).n - FloatOf(e).n) < 10)
                    => compared.match
            /\ (Parses(c) /\ Parses(e) /\ Abs(FloatOf(c).n - FloatOf(e).n) > 10)
                    => ~compared.match
            /\ ~(Parses(c) /\ Parses(e)) => (compared.match <=> Str(c) = Str(e))
            /\ (c = JNum(235004) /\ e = JNum(235000)) => compared.match
            /\ (c = JNum(235010) /\ e = JNum(235000)) => ~compared.match

\* 23.501 against 23.5: exactly the tolerance apart, no match
C19_Witness ==
    compared = [current |-> JNum(235010), expected |-> JNum(235000),
                match |-> FALSE]

(***************************************************************************)
(* More properties of the write-verify calls (SpecWV).                     *)
(***************************************************************************)
\* the details of lines 192, 269, 391, 468-472 and 579-583
UnverifiedDetails ==
    {"Update sent but verification failed after 3 attempts",
     "Update sent but verification failed for maxTemp",
     "Update sent but verification failed for minTemp",
     "Update sent but verification failed for maxHum",
     "Update sent but verification failed for minHum",
     "Only latitude verified, longitude verification failed",
     "Only longitude verified, latitude verification failed",
     "Only avgWeight verified, minWeight verification failed",
     "Only minWeight verified, avgWeight verification failed",
     "Update sent but both verifications failed"}

\* the call has returned and its POST raised
WriteItselfFailed == wpc = "done" /\ posts[Len(posts)] # "ok"

\* the call has returned, its POST went through and a field was not verified
SentNotVerified ==
    /\ wpc = "done"
    /\ posts[Len(posts)] = "ok"
    /\ \E f \in 1..Len(verified) : ~verified[f]

\* C20: a setter whose write failed and a setter whose write was sent but not
\* verified both return (False, detail); the detail of the second says that
\* the update was sent or names the field that verified, the detail of the
\* first is 'Error: ' and the exception, and is never one of those.
C20_DistinguishableOutcomes ==
    /\ WriteItselfFailed =>
            /\ result = Returned(FALSE, "Error: " \o posts[Len(posts)])
            /\ result.detail \notin UnverifiedDetails
    /\ SentNotVerified =>
            /\ ~result.ok
            /\ result.detail \in UnverifiedDetails
            /\ result.detail \notin {"Error: " \o e : e \in PostOutcomes}

\* a location write that raised
C20_Witness ==
    /\ call.fn = "set_location_attributes"
    /\ WriteItselfFailed
    /\ result.detail = "Error: ConnectionError"

\* a location write that went through and of which only the latitude verified
C20_WitnessUnverified ==
    /\ call.fn = "set_location_attributes"
    /\ SentNotVerified
    /\ result.detail = "Only latitude verified, longitude verification failed"

\* the answers of the store that are failures: the request raises, or the
\* body lacks the scope or the key
Failures == {Fail, NoScope, NoKey}

\* C21: whatever fails (the write, a read, a body without the scope or the
\* key), a setter is at one of its steps or has returned a (bool, str) tuple,
\* a call whose write failed has returned, and get_egg_type has returned
\* 'Hen', 'Quail' or 'Unknown': no call has ended in an exception.
C21_NoExceptionCrossesBoundary ==
    /\ wpc \in {"idle", "post", "sleep", "read", "done"}
    /\ wpc = "done" => /\ result.ok \in BOOLEAN
                       /\ result.detail \in STRING
                       /\ result # NoResult
    /\ (posts # <<>> /\ posts[Len(posts)] # "ok") => wpc = "done"
    /\ (log # <<>> /\ log[Len(log)] \in Failures) => wpc \in {"sleep", "read", "done"}
    /\ (egg # NoEgg /\ egg.resp \in Failures) => egg.ret \in {"Hen", "Quail", "Unknown"}

\* set_weight_attributes returned after two failed reads of its second
\* field, and the fetch of get_egg_type failed
C21_Witness ==
    /\ wpc = "done"
    /\ call.fn = "set_weight_attributes"
    /\ log = <<Fail, NoScope, Value(JNum(500000))>>
    /\ result = Returned(TRUE, "Egg weights successfully updated (avg=63g, min=50g)")
    /\ egg = [resp |-> Fail, ret |-> "Unknown"]

(***************************************************************************)
(* Termination of the write-verify calls (SpecWVFair).                     *)
(***************************************************************************)
\* one write, before any read; one sleep of 2 seconds before every read; at
\* most 3 sleeps and reads, 6 seconds of sleeping
C22_Sequencing ==
    SingleKey =>
        /\ Len(posts) <= 1
        /\ (sleeps > 0 \/ reads > 0) => posts = <<"ok">>
        /\ wpc = "post" => posts = <<>>
        /\ sleeps = IF wpc = "read" THEN reads + 1 ELSE reads
        /\ slept = 2 * sleeps
        /\ sleeps <= 3
        /\ reads <= 3
        /\ slept <= 2 * 3

\* C22: a single-key call writes exactly once and before any read, sleeps
\* delay seconds immediately before every read, makes at most max_attempts
\* sleeps and reads, so sleeps at most delay x max_attempts seconds, and then
\* returns.
C22_SequencingAndTermination ==
    /\ []C22_Sequencing
    /\ (SingleKey /\ wpc = "post") ~> (wpc = "done")

\* the longest call: three reads without a match, six seconds of sleep
C22_Witness ==
    /\ wpc = "done"
    /\ call.fn = "set_temperature_attribute"
    /\ posts = <<"ok">>
    /\ reads = 3
    /\ sleeps = 3
    /\ slept = 6
    /\ result.ok = FALSE

(***************************************************************************)
(* Order of the two verifications of a composite call (SpecOrders).        *)
(***************************************************************************)
SameInEveryOrder ==
    /\ ordering.first_second = ordering.second_first
    /\ ordering.first_second = ordering.parallel

\* C23 as stated: whenever the written values show up in the store, the pair
\* (first field verified, second field verified) is the same for the first
\* field polled before the second, the second before the first, and both
\* polled in parallel.
C23_OrderIndependent ==
    ordering # NoOrdering => SameInEveryOrder

\* the value shows within delay x max_attempts seconds of the write, or not
\* while any of the orders is still polling (2 x delay x max_attempts)
SettlesEarlyOrNever(t) == t <= 2 * 3 \/ t > 2 * 2 * 3

\* C23 amended: the pair is the same in the three orders when each written
\* value shows up in the store within delay x max_attempts seconds of the
\* write, or not before the call has returned.
C23_OrderIndependentWhenSettled ==
    (/\ ordering # NoOrdering
     /\ SettlesEarlyOrNever(ordering.settle[1])
     /\ SettlesEarlyOrNever(ordering.settle[2])) => SameInEveryOrder

\* the longitude shows after 6 seconds, the latitude never: both orders and
\* the parallel poll verify the longitude only
C23_Witness ==
    /\ ordering # NoOrdering
    /\ ordering.call.fn = "set_location_attributes"
    /\ ordering.settle = <<13, 6>>
    /\ ordering.first_second = <<FALSE, TRUE>>
    /\ ordering.second_first = <<FALSE, TRUE>>
    /\ ordering.parallel = <<FALSE, TRUE>>

(***************************************************************************)
(* Properties of the command handler (SpecCmd).                            *)
(***************************************************************************)
\* the dict the handler takes the keys from
Carried(payload) == IF payload.params # Absent THEN payload.params ELSE payload

\* a JSON object whose door and rgb, if any, are strings and whose period, if
\* any, is an integer or the decimal digits of one, flat or in the envelope
WellFormed(payload) ==
    /\ payload.t = "obj"
    /\ Carried(payload).t = "obj"
    /\ Carried(payload).door = Absent \/ Carried(payload).door.t = "str"
    /\ Carried(payload).rgb = Absent \/ Carried(payload).rgb.t = "str"
    /\ \/ Carried(payload).period = Absent
       \/ Carried(payload).period.t = "num"
       \/ Carried(payload).period = JStr("2000")

Millis(period) == IF period.t = "num" THEN period.n ELSE 2000

\* C24: a well-formed command sets door_status, led_rgb and telemetry_interval
\* to the values of the keys it carries, leaves those of them it does not
\* carry as they were, and leaves the phase index, state_counter,
\* target_repeats, current_uid and current_weight alone; a command that
\* carries only other keys changes none of these.
C24_CommandFrame ==
    [][\A payload \in {p \in Payloads : WellFormed(p)} :
        on_message_recorded(payload) =>
            LET c == Carried(payload) IN
            /\ door_status' = IF c.door # Absent THEN c.door ELSE door_status
            /\ led_rgb' = IF c.rgb # Absent THEN c.rgb ELSE led_rgb
            /\ telemetry_interval' =
                    IF c.period # Absent
                    THEN [whole |-> Millis(c.period) \div 1000,
                          frac |-> Millis(c.period) % 1000]
                    ELSE telemetry_interval
            /\ UNCHANGED <<current_state_idx, state_counter, target_repeats,
                           current_uid, current_weight>>]_vars

\* {"rgb": "red"} was delivered after {"door": "closed", "period": 2000}
C24_Witness ==
    /\ delivered = JObj(Absent, JStr("red"), Absent, Absent, Absent)
    /\ last_event = "cmd_ok"
    /\ led_rgb = JStr("red")
    /\ door_status = JStr("closed")
    /\ telemetry_interval = [whole |-> 2, frac |-> 0]
    /\ state_counter = 0

\* the three settable fields
Settable ==
    [door_status |-> door_status, led_rgb |-> led_rgb,
     telemetry_interval |-> telemetry_interval, error |-> FALSE]

\* C30: a payload {"params": P} changes door_status, led_rgb and
\* telemetry_interval exactly as the flat payload P does; door, rgb and period
\* keys next to 'params' are not applied.
C30_EnvelopeEquivalence ==
    [][\A payload \in {p \in Payloads : p.t = "obj" /\ p.params # Absent} :
        on_message_recorded(payload) =>
            LET flat == OnMessageResult(payload.params, Settable) IN
            /\ door_status' = flat.door_status
            /\ led_rgb' = flat.led_rgb
            /\ telemetry_interval' = flat.telemetry_interval
            /\ (payload.params.t = "obj" /\ payload.params.door = Absent)
                    => door_status' = door_status
            /\ (payload.params.t = "obj" /\ payload.params.rgb = Absent)
                    => led_rgb' = led_rgb
            /\ (payload.params.t = "obj" /\ payload.params.period = Absent)
                    => telemetry_interval' = telemetry_interval]_vars

\* {"params": {"door": "open", "rgb": "red", "period": 2000}} was delivered
\* to a nest whose door was closed
C30_Witness ==
    /\ delivered = JObj(Absent, Absent, Absent, Absent,
                        JObj(JStr("open"), JStr("red"), JNum(2000), Absent, Absent))
    /\ last_event = "cmd_ok"
    /\ door_status = JStr("open")
    /\ led_rgb = JStr("red")
    /\ telemetry_interval = [whole |-> 2, frac |-> 0]

(***************************************************************************)
(* Commands delivered while the loop runs (Spec).                          *)
(***************************************************************************)
WellFormedPayloads == {p \in Payloads : WellFormed(p)}

\* C25: in every interleaving of deliveries and ticks, door_status, led_rgb
\* and telemetry_interval each hold the value of the last well-formed command
\* that named the field: a well-formed command sets the fields it names,
\* nothing else changes them, and a tick that finds the dwell over in
\* WAITING_FOR_HEN is blocked exactly when that door value is 'closed'.
C25_LastWriteWins ==
    [][/\ \A payload \in WellFormedPayloads :
            on_message(payload) =>
                /\ Carried(payload).door # Absent
                        => door_status' = Carried(payload).door
                /\ Carried(payload).rgb # Absent
                        => led_rgb' = Carried(payload).rgb
                /\ Carried(payload).period # Absent
                        => telemetry_interval' =
                                [whole |-> Millis(Carried(payload).period) \div 1000,
                                 frac |-> Millis(Carried(payload).period) % 1000]
       /\ door_status' # door_status =>
            \E payload \in WellFormedPayloads :
                Carried(payload).door = door_status' /\ on_message(payload)
       /\ led_rgb' # led_rgb =>
            \E payload \in WellFormedPayloads :
                Carried(payload).rgb = led_rgb' /\ on_message(payload)
       /\ telemetry_interval' # telemetry_interval =>
            \E payload \in WellFormedPayloads :
                Carried(payload).period # Absent /\ on_message(payload)
       /\ (Tick /\ current_state_idx = 0 /\ state_counter >= target_repeats
                /\ IsStr(door_status))
            => (last_event' = "blocked" <=> Lower(door_status.s) = "closed")]_vars

(***************************************************************************)
(* Properties of run() with its sleeps and its end recorded (SpecRun).     *)
(***************************************************************************)
\* a time.sleep call, which returns or raises
SleepStep == pc = "sleep" /\ pc' \in {"update", "crashed"}

\* C26: a command that carries period = p milliseconds sets
\* telemetry_interval to p / 1000 seconds, and every time.sleep of the loop is
\* called with the interval as it is then, so the first sleep after the
\* command uses the new interval.
C26_PeriodConversion ==
    [][/\ \A payload \in {p \in RunPayloads : WellFormed(p) /\ p.period # Absent} :
            on_message(payload) =>
                telemetry_interval' = [whole |-> Millis(payload.period) \div 1000,
                                       frac |-> Millis(payload.period) % 1000]
       /\ SleepStep => slept_for' = telemetry_interval
       /\ ~SleepStep => slept_for' = slept_for]_vars

\* period = 2000 was delivered and the next sleep lasted 2 seconds
C26_Witness ==
    /\ telemetry_interval = [whole |-> 2, frac |-> 0]
    /\ slept_for = [whole |-> 2, frac |-> 0]
    /\ pc = "update"
    /\ state_counter > 0

\* C28: however the loop of run() has ended, by Ctrl+C or by any other
\* exception raised in it, the network loop has been stopped and the client
\* disconnected.
C28_ShutdownReleasesTransport ==
    pc \in {"stopped", "crashed"} => transport = "released"

(***************************************************************************)
(* Two runs that differ in their rgb commands only (SpecTwin).             *)
(***************************************************************************)
\* C27: two runs with the same random draws and the same door and period
\* commands, whatever rgb commands each is sent, are tick by tick in the same
\* phase with the same counter, publish the same weight and uid, and go on
\* or end together.
C27_RgbNoninterference ==
    /\ twin.idx = current_state_idx
    /\ twin.counter = state_counter
    /\ twin.uid = current_uid
    /\ twin.weight = current_weight
    /\ twin.telemetry = telemetry
    /\ twin.crashed = (pc = "crashed")

(***************************************************************************)
(* get_egg_type (SpecWV).                                                  *)
(***************************************************************************)
\* the fetched avgWeight is a number less than 0.001 from k
NearAvg(resp, k) ==
    /\ HasValue(resp)
    /\ FloatOf(resp.v).ok
    /\ Abs(FloatOf(resp.v).n - k * Scale) < Tolerance

\* the fetched avgWeight is a number more than 0.001 from 63 and from 11
FarFromBoth(resp) ==
    /\ HasValue(resp)
    /\ \/ resp.v = JHuge
       \/ /\ FloatOf(resp.v).ok
          /\ Abs(FloatOf(resp.v).n - HenAvgWeight * Scale) > Tolerance
          /\ Abs(FloatOf(resp.v).n - QuailAvgWeight * Scale) > Tolerance

NonNumeric(resp) == HasValue(resp) /\ resp.v # JHuge /\ ~FloatOf(resp.v).ok

\* C29: get_egg_type returns 'Hen' for a fetched avgWeight within 0.001 of
\* 63, 'Quail' within 0.001 of 11, and 'Unknown' for every other number, for
\* a non-numeric value, for a missing attribute and for a failed fetch; and
\* once set_weight_attributes for hen or quail has returned success, a fetch
\* that shows what the store held then returns the label of that egg type.
C29_EggTypeClassification ==
    egg # NoEgg =>
        /\ NearAvg(egg.resp, HenAvgWeight) => egg.ret = "Hen"
        /\ NearAvg(egg.resp, QuailAvgWeight) => egg.ret = "Quail"
        /\ FarFromBoth(egg.resp) => egg.ret = "Unknown"
        /\ NonNumeric(egg.resp) => egg.ret = "Unknown"
        /\ egg.resp \in {Fail, NoScope, NoKey} => egg.ret = "Unknown"
        /\ (/\ wpc = "done" /\ call.fn = "set_weight_attributes" /\ result.ok
            /\ egg.resp = Value(stored)) =>
               /\ call.values = <<JInt(63), JInt(50)>> => egg.ret = "Hen"
               /\ call.values = <<JInt(11), JInt(8)>> => egg.ret = "Quail"

(***************************************************************************)
(* The counter and its target (Spec).                                      *)
(***************************************************************************)
\* a tick has returned: the loop is past update_logic, or a snapshot of a
\* pass has been published
TickedOnce == pc \in {"publish", "sleep"} \/ telemetry # [init |-> "started"]

\* C31: between ticks the counter is between 0 and target_repeats and
\* target_repeats between 5 and 30 (the draw of the constructor, in force
\* until the first tick, between 5 and 20); once a tick has returned the
\* counter is at least 1; a blocked tick leaves the counter at
\* target_repeats.
C31_CounterBound ==
    /\ 0 <= state_counter /\ state_counter <= target_repeats
    /\ RepeatsMin <= target_repeats /\ target_repeats <= RepeatsMax
    /\ state_counter = 0 =>
          InitRepeatsMin <= target_repeats /\ target_repeats <= InitRepeatsMax
    /\ TickedOnce => state_counter >= 1
    /\ last_event = "blocked" => state_counter = target_repeats

\* blocked after a full cycle, with the largest dwell
C31_Witness ==
    /\ last_event = "blocked"
    /\ pc = "sleep"
    /\ telemetry.uid = "None"
    /\ state_counter = RepeatsMax
    /\ target_repeats = RepeatsMax

(***************************************************************************)
(* Identity and weight by phase (Spec).                                    *)
(***************************************************************************)
\* uid and weight (in hundredths of a gram) are those of phase idx
OfPhase(idx, uid, weight) ==
    /\ uid = HEN_UID <=> states[idx + 1] = "HEN_INSIDE"
    /\ uid = FARMER_UID <=> states[idx + 1] = "PERSON_COLLECTING"
    /\ uid \in {HEN_UID, FARMER_UID, "None"}
    /\ states[idx + 1] \in {"WAITING_FOR_HEN", "PERSON_COLLECTING"} => weight = 0
    /\ states[idx + 1] = "HEN_INSIDE" => 200000 <= weight /\ weight <= 350000
    /\ states[idx + 1] = "EGGS_DEPOSITED" => weight \in {6500, 13000, 19500}

\* C32: after every tick current_uid and current_weight are those of the
\* current phase (the hen tag exactly in HEN_INSIDE, the operator tag exactly
\* in PERSON_COLLECTING, 'None' otherwise; 0 g, 2000..3500 g, 65/130/195 g,
\* 0 g), and the snapshot a pass has published carries the values of the
\* phase the nest is in.
C32_PhaseIdentityConsistency ==
    /\ OfPhase(current_state_idx, current_uid, current_weight)
    /\ pc = "sleep" => OfPhase(current_state_idx, telemetry.uid, telemetry.weight)

\* the first snapshot of EGGS_DEPOSITED: three eggs, no tag
C32_Witness ==
    /\ pc = "sleep"
    /\ last_event = "moved"
    /\ current_state_idx = 2
    /\ state_counter = 1
    /\ telemetry = [weight |-> 19500, uid |-> "None"]

(***************************************************************************)
(* Release of the interlock (SpecGateFair).                                *)
(***************************************************************************)
\* door_status, whatever was put there, is not 'closed' in any case
GateNotClosed == ~(IsStr(door_status) /\ Lower(door_status.s) = "closed")

\* the first tick that starts after a blocked tick with the gate no longer
\* closed moves to HEN_INSIDE and is its first tick
ReleasedAtOnce ==
    [][(Tick /\ last_tick = "blocked" /\ GateNotClosed)
        => (current_state_idx' = 1 /\ state_counter' = 1)]_vars

\* if the gate stays open from some point on, the nest is out of
\* WAITING_FOR_HEN again and again
LeavesWaiting ==
    <>[](door_status = JStr("open")) => []<>(current_state_idx # 0)

\* C33: when the simulator is blocked in WAITING_FOR_HEN and the gate is set
\* to a value other than 'closed', the first tick that starts afterwards
\* moves to HEN_INSIDE without any further dwell; and if the gate stays open
\* from some point on, the simulator always eventually leaves
\* WAITING_FOR_HEN.
C33_PromptRelease == ReleasedAtOnce /\ LeavesWaiting

(***************************************************************************)
(* Length of a sojourn (SpecSojourn).                                      *)
(***************************************************************************)
\* C34: a tick that moves to the next phase ends a sojourn which, when none
\* of its ticks was blocked, had exactly target_repeats ticks and exactly
\* target_repeats snapshots, target_repeats being the value drawn when the
\* phase was entered (at construction for the first phase), whatever door
\* commands were delivered meanwhile; until then the sojourn has not had
\* more ticks than that.
C34_SojournLength ==
    [][/\ (TickReturns /\ PhaseChanges /\ ~sojourn.blocked)
            => /\ sojourn.ticks = sojourn.drawn
               /\ sojourn.snapshots = sojourn.drawn
               /\ target_repeats = sojourn.drawn
       /\ (TickReturns /\ ~PhaseChanges /\ ~sojourn'.blocked)
            => /\ sojourn'.ticks <= sojourn.drawn
               /\ sojourn'.drawn = sojourn.drawn]_vars

\* HEN_INSIDE entered with a dwell of 30 ticks, the gate closed and opened
\* meanwhile: 30 ticks and 30 snapshots, and the next tick will move
C34_Witness ==
    /\ pc = "update"
    /\ current_state_idx = 1
    /\ last_event = "cmd_ok"
    /\ door_status = JStr("open")
    /\ sojourn = [ticks |-> RepeatsMax, snapshots |-> RepeatsMax,
                  drawn |-> RepeatsMax, blocked |-> FALSE]

(***************************************************************************)
(* Concurrent callers (SpecConc).                                          *)
(***************************************************************************)
\* value v, read from the store, matches what call c wanted to write
MatchesDesired(c, v) ==
    \/ v = c.values[1]
    \/ /\ c.fn # "set_door_status"
       /\ \/ /\ FloatOf(v).ok /\ FloatOf(c.values[1]).ok
             /\ Abs(FloatOf(v).n - FloatOf(c.values[1]).n) <= Tolerance
          \/ Str(v) = Str(c.values[1])

ReturnedTrue(i) == inflight[i].pc = "done" /\ inflight[i].result.ok

\* C35: whatever the other caller and the other writers of the store do, a
\* call returns True only if one of its own reads, made after its own
\* write, showed a value matching the value it wanted.  (That the store may
\* hold another value by then, and that two calls with different values for
\* one key can both return True, is what C35_Witness shows.)
C35_ConfirmationSound ==
    \A i \in Callers :
        ReturnedTrue(i) =>
            \E v \in inflight[i].seen : MatchesDesired(inflight[i].call, v)

\* two overlapping door calls, one for 'open' and one for 'closed', have both
\* returned True; the store holds 'closed'
C35_Witness ==
    /\ ReturnedTrue("first") /\ ReturnedTrue("second")
    /\ inflight["first"].call.values = <<JStr("open")>>
    /\ inflight["second"].call.values = <<JStr("closed")>>
    /\ inflight["first"].attempt = 1
    /\ server["door"] = JStr("closed")

(***************************************************************************)
(* Shape of a composite call (SpecWV).                                     *)
(***************************************************************************)
\* the reads of the field now being polled, and those of the fields before
ReadsOfThisField == Len(log)
ReadsOfEarlierFields == reads - Len(log)

\* C36: set_location_attributes and set_weight_attributes make one write,
\* which carries both fields, and never a second; once it is accepted they
\* poll the first field until it matches or its attempts are used up, and
\* only then read the second field, which is polled also when the first was
\* exhausted: the call returns after 2 to 2 x max_attempts reads.
C36_CompositeShape ==
    Composite =>
        /\ Len(posts) <= 1
        /\ reads > 0 => posts = <<"ok">>
        /\ field <= 1 => /\ verified = <<>>
                         /\ ReadsOfEarlierFields = 0
        /\ field = 2 => /\ Len(verified) >= 1
                        /\ ReadsOfEarlierFields >= 1
                        /\ ReadsOfEarlierFields <= max_attempts
                        /\ ~verified[1] => ReadsOfEarlierFields = max_attempts
                        /\ ReadsOfThisField <= max_attempts
        /\ (wpc = "done" /\ posts = <<"ok">>) =>
                /\ field = 2
                /\ Len(verified) = 2
                /\ ReadsOfThisField >= 1
                /\ ~verified[2] => ReadsOfThisField = max_attempts
                /\ reads >= 2 /\ reads <= 2 * max_attempts

\* latitude never matched in three reads; longitude was then polled and
\* matched on its first read
C36_Witness ==
    /\ wpc = "done"
    /\ call.fn = "set_location_attributes"
    /\ posts = <<"ok">>
    /\ verified = <<FALSE, TRUE>>
    /\ reads = 4
    /\ Len(log) = 1

(***************************************************************************)
(* Reads whose body lacks the scope or the key (SpecWV).                   *)
(***************************************************************************)
Missing == {NoScope, NoKey}

\* C37: a read that is answered without the scope or without the key, the
\* first read of a call included, uses one attempt and no more: with attempts
\* left the loop goes on, a later read that matches makes the call return
\* True, and a call that ends on such a read returns False with the detail of
\* an update that was sent and not verified, not with an error detail.
C37_MissingKeyIsAnAttempt ==
    /\ (SingleKey /\ log # <<>> /\ log[Len(log)] \in Missing) =>
            /\ reads = Len(log)
            /\ Len(log) < Attempts(call) => wpc \in {"sleep", "read"}
            /\ Len(log) >= Attempts(call) => wpc = "done"
    /\ (wpc = "done" /\ log # <<>> /\ log[Len(log)] \in Missing) =>
            /\ ~result.ok
            /\ result.detail \in UnverifiedDetails
    /\ (SingleKey /\ log # <<>> /\ log[1] \in Missing
        /\ FieldMatches(call, 1, log[Len(log)])) =>
            /\ wpc = "done"
            /\ result.ok
            /\ result.detail \notin UnverifiedDetails

\* the first two reads of a temperature call lack the key and the scope, the
\* third shows the value
C37_Witness ==
    /\ wpc = "done"
    /\ call.fn = "set_temperature_attribute"
    /\ log = <<NoKey, NoScope, Value(JNum(235000))>>
    /\ result.ok = TRUE
    /\ attempt = 2

(***************************************************************************)
(* The session and the login gate (SpecBot).                               *)
(***************************************************************************)
LoginFailed == handled'.handler = "login_command" /\ handled'.ret = JNull
LoggedOut == handled'.called = "logout"

\* C38: is_logged_in() is True exactly when the last of the successful
\* logins and the logouts was a successful login; a login that fails leaves
\* the token and the Authorization header as they were; a logout clears
\* both.
C38_SessionStateMachine ==
    /\ []((token # JNull) <=> (last_session.op = "login"))
    /\ [][/\ LoginFailed => UNCHANGED <<token, authorization>>
          /\ LoggedOut => (token' = JNull /\ authorization' = Absent)]_vars

SetterCalls == {Setters[h] : h \in DOMAIN Setters}
LoginSucceeded == handled'.handler = "login_command" /\ handled'.ret # JNull

\* the handler h, run by the chat user u with usable arguments, can call
\* its setter
GateOpenFor(u, h) ==
    ENABLED (mutating_handler(u, h, TRUE) /\ handled'.called = Setters[h])

\* the read-only handler h, run by the chat user u, can call its getter
ReadableBy(u, h) ==
    ENABLED (read_only_handler(u, h) /\ handled'.called = Getters[h])

\* C39: a handler that changes a device attribute calls its setter only when
\* the client holds a token at that moment, and the read-only handlers call
\* their getter with or without one; the token is one value for the whole
\* process: in every state the gate is open for every chat user or for
\* none, a login that returned a token opens it and a logout closes it,
\* whoever ran them.
C39_LoginGate ==
    /\ [](\A u \in ChatUsers :
            /\ \A h \in DOMAIN Setters : GateOpenFor(u, h) <=> token # JNull
            /\ \A h \in DOMAIN Getters : ReadableBy(u, h))
    /\ [][/\ handled'.called \in SetterCalls
             => /\ token # JNull
                /\ handled'.handler \in DOMAIN Setters
                /\ handled'.called = Setters[handled'.handler]
          /\ LoginSucceeded => token' # JNull
          /\ LoggedOut => token' = JNull]_vars

\* alice has logged in and bob, who never did, has closed the door
C39_Witness ==
    /\ last_session = [op |-> "login", user |-> "alice"]
    /\ handled.user = "bob"
    /\ handled.handler = "door_command"
    /\ handled.called = "set_door_status"

====
